---- MODULE Spec2Model ----
(***************************************************************************)
(* Travel-inquiry extraction pipeline (litshivang/XSV).                    *)
(*                                                                         *)
(* Texts are sequences of atoms.  An atom is a maximal run of word         *)
(* characters ("goa", "3") or one other character (" ", "\n", ",", "'").   *)
(* The Python string a text stands for is the concatenation of its atoms.  *)
(* Regular expressions of the program are sequences of pattern elements    *)
(* that consume atoms; a backtracking matcher gives them the leftmost-     *)
(* first semantics of Python's re module.  A literal of a pattern is       *)
(* written as the set of atoms of the vocabulary that contain it where the *)
(* pattern allows it to match inside a word.                               *)
(***************************************************************************)
EXTENDS Integers, Sequences, FiniteSets, TLC

VARIABLES
    email_data,            \* the input record of process_inquiry
    pc,                    \* position of the call in progress
    language_info,         \* result of detect_language
    classification_info,   \* result of classify_inquiry
    extracted_fields,      \* result of the field extractor
    structured_data,       \* result of structure_extracted_data
    result,                \* what the operation returned (or raised)
    inquiry_id,            \* the identifier of the record of the call in progress
    run,                   \* the clock, the interpreter process and the calls it has served
    ner                    \* a call of EnhancedNERExtractor.extract_with_confidence

vars == <<email_data, pc, language_info, classification_info, extracted_fields,
          structured_data, result, inquiry_id, run, ner>>

(***************************************************************************)
(* Atoms                                                                   *)
(***************************************************************************)
SP == " "
NL == "\n"
WS == {SP, NL}

DigitSeq == <<"0", "1", "2", "3", "4", "5", "6", "7", "8", "9", "10", "11", "12", "13", "14",
              "15", "16", "17", "18", "19", "20", "21", "22", "23", "24", "25">>
\* amounts of money, and the groups of three and two digits they are written with
AmountAtoms == {"45", "45000", "500000"}
Digits3 == {"000", "500"}
Digits2 == {"00", "50"}
DigitAtoms == {DigitSeq[i] : i \in 1..Len(DigitSeq)} \cup AmountAtoms \cup Digits3 \cup Digits2

\* int(): the number a digit atom denotes
ToInt(a) == (CHOOSE i \in 1..Len(DigitSeq) : DigitSeq[i] = a) - 1

\* Devanagari (U+0900-U+097F).  TLA+ strings are ASCII, so an atom of
\* Devanagari text is written as the names of its characters in brackets:
\* "[va.ya.sa]" is the run of the three letters va, ya, sa.  A combining sign
\* ("[+virama]", "[+aa]") is not a word character and is an atom of its own.
DevMarks == {"[+aa]", "[+ai]", "[+anusvara]", "[+candrabindu]", "[+e]", "[+i]", "[+ii]",
             "[+o]", "[+u]", "[+uu]", "[+virama]", "[+vocalic r]"}
DevLetters1 == {"[ca]", "[cha]", "[da]", "[dha]", "[e]", "[ga]", "[ha]", "[ja]", "[ka]",
                "[la]", "[ma]", "[na]", "[pa]", "[ra]", "[sa]", "[sha]", "[ssa]", "[ta]",
                "[va]", "[ya]"}
DevLetters2 == {"[a.na]", "[au.ra]", "[ba.ca]", "[cha.ta]", "[dha.na]", "[ga.ta]", "[ha.ma]", "[pa.ya]",
                "[sa.ma]", "[ssa.ya]", "[ta.ka]", "[ya.ka]", "[ya.va]"}
DevLetters3 == {"[aa.va.sha]", "[na.ma.sa]", "[va.ya.sa]"}
DevAtoms == DevMarks \cup DevLetters1 \cup DevLetters2 \cup DevLetters3

\* the rupee sign U+20B9
RUPEE == "[rupee]"

\* len(): the number of characters of an atom
CharLen(a) ==
    IF a \in DevMarks \cup DevLetters1 \cup {RUPEE} THEN 1
    ELSE IF a \in DevLetters2 THEN 2
    ELSE IF a \in DevLetters3 THEN 3
    ELSE Len(a)

Range(s) == {s[i] : i \in 1..Len(s)}

\* the characters of the atoms a..b of t that are in `atoms`
RECURSIVE CharsIn(_, _, _, _)
CharsIn(t, a, b, atoms) ==
    IF a > b THEN 0
    ELSE IF a = b THEN (IF t[a] \in atoms THEN CharLen(t[a]) ELSE 0)
    ELSE CharsIn(t, a, (a + b) \div 2, atoms) + CharsIn(t, (a + b) \div 2 + 1, b, atoms)

\* len() of a text
TextLen(t) == CharsIn(t, 1, Len(t), Range(t))

\* words separated by single spaces
RECURSIVE Spaced(_)
Spaced(ws) ==
    IF Len(ws) <= 1 THEN ws ELSE <<Head(ws), SP>> \o Spaced(Tail(ws))

\* the non-empty texts of ts joined by sep
RECURSIVE Join(_, _)
Join(ts, sep) ==
    IF ts = <<>> THEN <<>>
    ELSE IF Head(ts) = <<>> THEN Join(Tail(ts), sep)
    ELSE LET r == Join(Tail(ts), sep)
         IN IF r = <<>> THEN Head(ts) ELSE Head(ts) \o sep \o r

\* the words of the program's Devanagari literals, as atoms
Dv(w) ==
    CASE w = "vishay"    -> <<"[va]", "[+i]", "[ssa.ya]">>
      [] w = "yatra"     -> <<"[ya]", "[+aa]", "[ta]", "[+virama]", "[ra]", "[+aa]">>
      [] w = "puchhtachh" -> <<"[pa]", "[+uu]", "[cha.ta]", "[+aa]", "[cha]">>
      [] w = "vayask"    -> <<"[va.ya.sa]", "[+virama]", "[ka]">>
      [] w = "bachch"    -> <<"[ba.ca]", "[+virama]", "[ca]">>
      [] w = "bachche"   -> <<"[ba.ca]", "[+virama]", "[ca]", "[+e]">>
      [] w = "namaste"   -> <<"[na.ma.sa]", "[+virama]", "[ta]", "[+e]">>
      [] w = "namaskar"  -> <<"[na.ma.sa]", "[+virama]", "[ka]", "[+aa]", "[ra]">>
      [] w = "dhanyavad" -> <<"[dha.na]", "[+virama]", "[ya.va]", "[+aa]", "[da]">>
      [] w = "kripaya"   -> <<"[ka]", "[+vocalic r]", "[pa.ya]", "[+aa]">>
      [] w = "ke"        -> <<"[ka]", "[+e]">>
      [] w = "liye"      -> <<"[la]", "[+i]", "[e]">>
      [] w = "ki"        -> <<"[ka]", "[+ii]">>
      [] w = "mein"      -> <<"[ma]", "[+e]", "[+anusvara]">>
      [] w = "se"        -> <<"[sa]", "[+e]">>
      [] w = "tak"       -> <<"[ta.ka]">>
      [] w = "aur"       -> <<"[au.ra]">>
      [] w = "ya"        -> <<"[ya]", "[+aa]">>
      [] w = "kul"       -> <<"[ka]", "[+u]", "[la]">>
      [] w = "yatri"     -> <<"[ya]", "[+aa]", "[ta]", "[+virama]", "[ra]", "[+ii]">>
      [] w = "goa"       -> <<"[ga]", "[+o]", "[va]", "[+aa]">>
      [] w = "din"       -> <<"[da]", "[+i]", "[na]">>
      [] w = "raat"      -> <<"[ra]", "[+aa]", "[ta]">>
      [] w = "jismein"   -> <<"[ja]", "[+i]", "[sa.ma]", "[+e]", "[+anusvara]">>
      [] w = "vyakti"    -> <<"[va]", "[+virama]", "[ya.ka]", "[+virama]", "[ta]", "[+i]">>
      [] w = "gatividhiyan" -> <<"[ga.ta]", "[+i]", "[va]", "[+i]", "[dha]", "[+i]", "[ya]", "[+aa]",
                                 "[+candrabindu]">>
      [] w = "vishesh"   -> <<"[va]", "[+i]", "[sha]", "[+e]", "[ssa]">>
      [] w = "anurodh"   -> <<"[a.na]", "[+u]", "[ra]", "[+o]", "[dha]">>
      [] w = "avashyak"  -> <<"[aa.va.sha]", "[+virama]", "[ya.ka]">>
      [] w = "hain"      -> <<"[ha]", "[+ai]", "[+anusvara]">>
      [] w = "ham"       -> <<"[ha.ma]">>
      [] w = "log"       -> <<"[la]", "[+o]", "[ga]">>

\* Atoms that are not runs of word characters (\w does not match them).
NonWordAtoms ==
    WS \cup DevMarks
       \cup {",", ".", "/", "&", "+", ":", "(", ")", "-", "'", "@", "<", ">", "!", "?", RUPEE}

IsWord(a) == a \notin NonWordAtoms

(***************************************************************************)
(* Pattern elements                                                        *)
(***************************************************************************)
Elem(k, s, g, p) == [k |-> k, s |-> s, g |-> g, p |-> p]

T(s)      == Elem("tok", s, 0, <<>>)       \* one atom of the set s
L(a)      == T({a})                        \* a literal
Opt(s)    == Elem("opt", s, 0, <<>>)       \* x?  (greedy)
W(g)      == Elem("word", {}, g, <<>>)     \* (\w+), group g (0: no group)
D(g)      == Elem("num", {}, g, <<>>)      \* (\d+), group g
Frag(g)   == Elem("frag", {}, g, <<>>)     \* .*(\w+): the last character of a word
S1        == Elem("ws1", {}, 0, <<>>)      \* \s+
S0        == Elem("ws0", {}, 0, <<>>)      \* \s*
Lazy      == Elem("lazy", {}, 0, <<>>)     \* .*?   (no DOTALL)
Greedy    == Elem("greedy", {}, 0, <<>>)   \* .*    (no DOTALL)
LazyAll   == Elem("lazyall", {}, 0, <<>>)  \* .*?   (DOTALL)
Bol       == Elem("bol", {}, 0, <<>>)      \* ^
Eol       == Elem("eol", {}, 0, <<>>)      \* $
OptSeq(q) == Elem("alt", {}, 0, <<q, <<>>>>)   \* (?:q)?
Alt(qs)   == Elem("alt", {}, 0, qs)        \* (?:q1|q2|...)
Nla(qs)   == Elem("nla", {}, 0, qs)        \* (?!q1|q2|...)
Pla(qs)   == Elem("pla", {}, 0, qs)        \* (?=q1|q2|...)
Lit(w)    == [i \in 1..Len(w) |-> L(w[i])]  \* the atoms of w, literally
NumSfx(s, g) == Elem("numsfx", s, g, <<>>) \* (\d+)x inside one word, x in s
Ex1(s)    == Elem("ex1", s, 0, <<>>)       \* [^...]+  (greedy), s the excluded atoms
In1(s)    == Elem("in1", s, 0, <<>>)       \* [...]+   (greedy), s the atoms of the class
Pos(g)    == Elem("pos", {}, g, <<>>)      \* the position, kept in slot g: "(" and ")"
Mark(g)   == Elem("mark", {}, g, <<>>)     \* the match went this way: slot g is set

NoCaps == <<"", "", "">>
Fail == [ok |-> FALSE, s |-> 0, e |-> 0, c |-> NoCaps]

\* The one-character fragment a (\w+) captures after a greedy .* has taken
\* the rest of the word.
FragAtom == "#"

SetCap(c, g, a) == IF g > 0 THEN [c EXCEPT ![g] = a] ELSE c

(***************************************************************************)
(* Match(p, t, i, c): the first match, in backtracking order, of pattern p *)
(* against text t starting before atom i, with captures c so far.          *)
(***************************************************************************)
RECURSIVE Match(_, _, _, _)

Least(js) == CHOOSE j \in js : \A k \in js : j <= k
Greatest(js) == CHOOSE j \in js : \A k \in js : j >= k

\* the first position from i on whose atom is in `stops`, else the end of t
Stop(t, i, stops) == Least({k \in i..Len(t) : t[k] \in stops} \cup {Len(t) + 1})

\* the first position from i on whose atom is not in `class`, else the end of t
RunEnd(t, i, class) == Least({k \in i..Len(t) : t[k] \notin class} \cup {Len(t) + 1})

\* the positions of a..b from which the rest r of a pattern matches
Oks(r, t, c, a, b) == {j \in a..b : Match(r, t, j, c).ok}

\* a lazy repetition gives up as few atoms as it can, a greedy one as many
Shortest(r, t, c, js) == IF js = {} THEN Fail ELSE Match(r, t, Least(js), c)
Longest(r, t, c, js) == IF js = {} THEN Fail ELSE Match(r, t, Greatest(js), c)

Match(p, t, i, c) ==
    IF p = <<>> THEN [ok |-> TRUE, s |-> i, e |-> i, c |-> c]
    ELSE
      LET h == Head(p)
          r == Tail(p)
          more == i <= Len(t)
      IN
      CASE h.k = "tok" ->
             IF more /\ t[i] \in h.s THEN Match(r, t, i + 1, c) ELSE Fail
        [] h.k = "opt" ->
             LET a == IF more /\ t[i] \in h.s THEN Match(r, t, i + 1, c) ELSE Fail
             IN IF a.ok THEN a ELSE Match(r, t, i, c)
        [] h.k = "word" ->
             IF more /\ IsWord(t[i]) THEN Match(r, t, i + 1, SetCap(c, h.g, t[i])) ELSE Fail
        [] h.k = "num" ->
             IF more /\ t[i] \in DigitAtoms THEN Match(r, t, i + 1, SetCap(c, h.g, t[i])) ELSE Fail
        [] h.k = "numsfx" ->
             IF more /\ \E d \in DigitAtoms : \E x \in h.s : t[i] = d \o x
             THEN Match(r, t, i + 1,
                        SetCap(c, h.g, CHOOSE d \in DigitAtoms : \E x \in h.s : t[i] = d \o x))
             ELSE Fail
        [] h.k = "ex1" ->
             Longest(r, t, c, Oks(r, t, c, i + 1, Stop(t, i, h.s)))
        [] h.k = "in1" ->
             Longest(r, t, c, Oks(r, t, c, i + 1, RunEnd(t, i, h.s)))
        [] h.k = "pos" ->
             Match(r, t, i, SetCap(c, h.g, i))
        [] h.k = "mark" ->
             Match(r, t, i, SetCap(c, h.g, "set"))
        [] h.k = "frag" ->
             IF more /\ IsWord(t[i]) THEN Match(r, t, i + 1, SetCap(c, h.g, FragAtom)) ELSE Fail
        [] h.k = "ws1" ->
             IF more /\ t[i] \in WS THEN Match(<<S0>> \o r, t, i + 1, c) ELSE Fail
        [] h.k = "ws0" ->
             LET a == IF more /\ t[i] \in WS THEN Match(p, t, i + 1, c) ELSE Fail
             IN IF a.ok THEN a ELSE Match(r, t, i, c)
        [] h.k = "lazy" ->
             Shortest(r, t, c, Oks(r, t, c, i, Stop(t, i, {NL})))
        [] h.k = "lazyall" ->
             Shortest(r, t, c, Oks(r, t, c, i, Len(t) + 1))
        [] h.k = "greedy" ->
             Longest(r, t, c, Oks(r, t, c, i, Stop(t, i, {NL})))
        [] h.k = "bol" ->
             IF i = 1 THEN Match(r, t, i, c) ELSE Fail
        [] h.k = "eol" ->
             IF i = Len(t) + 1 \/ (i = Len(t) /\ t[i] = NL) THEN Match(r, t, i, c) ELSE Fail
        [] h.k = "alt" ->
             LET a == Match(h.p[1] \o r, t, i, c)
             IN IF a.ok THEN a
                ELSE IF Len(h.p) = 1 THEN Fail
                ELSE Match(<<Alt(Tail(h.p))>> \o r, t, i, c)
        [] h.k = "nla" ->
             IF \E k \in 1..Len(h.p) : Match(h.p[k], t, i, c).ok THEN Fail
             ELSE Match(r, t, i, c)
        [] h.k = "pla" ->
             IF \E k \in 1..Len(h.p) : Match(h.p[k], t, i, c).ok THEN Match(r, t, i, c)
             ELSE Fail
        [] OTHER -> Fail

\* re.search from position `from`: the leftmost match.
FirstHit(p, t, hits) ==
    IF hits = {} THEN Fail
    ELSE LET from == CHOOSE i \in hits : \A j \in hits : i <= j
         IN [Match(p, t, from, NoCaps) EXCEPT !.s = from]

SearchFrom(p, t, from) ==
    FirstHit(p, t, {i \in from..(Len(t) + 1) : Match(p, t, i, NoCaps).ok})

Search(p, t) == SearchFrom(p, t, 1)

Found(p, t) == Search(p, t).ok

\* re.finditer: the non-overlapping matches, left to right.
RECURSIVE FindIterFrom(_, _, _)
FindIterFrom(p, t, from) ==
    LET a == SearchFrom(p, t, from)
    IN IF ~a.ok THEN <<>>
       ELSE <<a>> \o FindIterFrom(p, t, IF a.e > a.s THEN a.e ELSE a.e + 1)

FindIter(p, t) == FindIterFrom(p, t, 1)

\* t[a..b-1], the matched text (match.group(0))
Slice(t, a, b) == SubSeq(t, a, b - 1)


(***************************************************************************)
(* OptimizedInquiryClassifier                                              *)
(***************************************************************************)
SINGLE_LEG == "single_leg"
MULTI_LEG == "multi_leg"
MODIFICATION == "modification"

\* str.lower() of a text: the atoms written with capitals, and their lower-case form
UpperSeq == <<
    "None", "Mark", "Henry", "Re", "For", "Trip", "Query", "Travel", "Plans", "Bali", "Singapore",
    "Dubai", "Maldives", "Goa", "Kerala", "Munnar", "Alleppey", "Kochi", "Chennai",
    "Mumbai", "Delhi", "Bengaluru", "Thailand", "Malaysia", "Japan", "Korea",
    "Vietnam", "Cambodia", "Europe", "London", "Paris", "Rome", "Switzerland",
    "Austria", "Usa", "USA", "Canada", "Australia", "New", "Zealand", "South", "Africa",
    "Rajasthan", "Jaipur", "Udaipur", "Jodhpur", "Himachal", "Pradesh", "Manali",
    "Shimla", "Dharamshala", "Kashmir", "Srinagar", "Ladakh", "Uttarakhand",
    "Rishikesh", "Haridwar", "Nainital", "Mussoorie", "Tamil", "Nadu", "Ooty",
    "Kodaikanal", "Rameswaram", "Kanyakumari", "Karnataka", "Mysore", "Coorg", "Hampi",
    "Chikmagalur", "Andhra", "Hyderabad", "Tirupati", "Vizag", "Araku", "Bangalore",
    "Kolkata", "Pune", "Ahmedabad", "Surat", "Lucknow", "Kanpur", "Nagpur", "Indore",
    "Thane", "Bhopal", "Visakhapatnam", "Pimpri", "Patna", "Vadodara", "Ghaziabad",
    "Ludhiana", "Agra", "Nashik", "Faridabad", "Meerut", "Rajkot", "Kalyan", "Vasai",
    "Varanasi", "Aurangabad", "Dhanbad", "Amritsar", "Navi", "Allahabad", "Howrah",
    "Ranchi", "Gwalior", "Jabalpur", "Coimbatore", "Vijayawada", "Madurai", "Raipur",
    "Kota", "Guwahati", "Chandigarh", "Solapur", "Kintamani", "Sunrise", "Ubud",
    "Tour", "Tanah", "Lot", "Temple", "Gardens", "By", "The", "Bay", "Sentosa",
    "Beach", "Hopping", "Dudhsagar", "Falls", "Pahalgam", "Valley", "Gulmarg",
    "Gondola", "Cultural", "Dhow", "Cruise", "Burj", "Khalifa", "Kufri", "Mall",
    "Road", "Stroll", "Bangkok", "City", "Phi", "Island", "James", "Bond", "Hotel",
    "Villa", "Spa", "Session", "Romantic", "Dinner", "Water", "Indian", "Style",
    "Dinners", "Taxi", "Taxis", "We", "Client" >>
LowerSeq == <<
    "none", "mark", "henry", "re", "for", "trip", "query", "travel", "plans", "bali", "singapore",
    "dubai", "maldives", "goa", "kerala", "munnar", "alleppey", "kochi", "chennai",
    "mumbai", "delhi", "bengaluru", "thailand", "malaysia", "japan", "korea",
    "vietnam", "cambodia", "europe", "london", "paris", "rome", "switzerland",
    "austria", "usa", "usa", "canada", "australia", "new", "zealand", "south", "africa",
    "rajasthan", "jaipur", "udaipur", "jodhpur", "himachal", "pradesh", "manali",
    "shimla", "dharamshala", "kashmir", "srinagar", "ladakh", "uttarakhand",
    "rishikesh", "haridwar", "nainital", "mussoorie", "tamil", "nadu", "ooty",
    "kodaikanal", "rameswaram", "kanyakumari", "karnataka", "mysore", "coorg", "hampi",
    "chikmagalur", "andhra", "hyderabad", "tirupati", "vizag", "araku", "bangalore",
    "kolkata", "pune", "ahmedabad", "surat", "lucknow", "kanpur", "nagpur", "indore",
    "thane", "bhopal", "visakhapatnam", "pimpri", "patna", "vadodara", "ghaziabad",
    "ludhiana", "agra", "nashik", "faridabad", "meerut", "rajkot", "kalyan", "vasai",
    "varanasi", "aurangabad", "dhanbad", "amritsar", "navi", "allahabad", "howrah",
    "ranchi", "gwalior", "jabalpur", "coimbatore", "vijayawada", "madurai", "raipur",
    "kota", "guwahati", "chandigarh", "solapur", "kintamani", "sunrise", "ubud",
    "tour", "tanah", "lot", "temple", "gardens", "by", "the", "bay", "sentosa",
    "beach", "hopping", "dudhsagar", "falls", "pahalgam", "valley", "gulmarg",
    "gondola", "cultural", "dhow", "cruise", "burj", "khalifa", "kufri", "mall",
    "road", "stroll", "bangkok", "city", "phi", "island", "james", "bond", "hotel",
    "villa", "spa", "session", "romantic", "dinner", "water", "indian", "style",
    "dinners", "taxi", "taxis", "we", "client" >>
LowerAtom(a) ==
    IF \E i \in 1..Len(UpperSeq) : UpperSeq[i] = a
    THEN LowerSeq[CHOOSE i \in 1..Len(UpperSeq) : UpperSeq[i] = a]
    ELSE a
Lower(t) == [i \in 1..Len(t) |-> LowerAtom(t[i])]

\* Python values: a str (a text) or None
Str(t) == [ty |-> "str", s |-> t]
None == [ty |-> "none", s |-> <<>>]
\* str(v), as an f-string formats it
PyStr(v) == IF v.ty = "str" THEN v.s ELSE <<"None">>

\* f"{subject} {text}"
Combined(subject, text) == subject \o <<SP>> \o text

RE == <<L("re"), L(":")>>

modification_patterns == <<
    <<Bol>> \o RE \o <<S1, L("trip")>>,
    <<Bol>> \o RE \o <<S1, Greedy, L("query")>>,
    <<Bol>> \o RE \o <<S1, L("travel")>>,
    <<OptSeq(<<L("client"), S1>>), OptSeq(<<L("has"), S1>>), L("made"), S1,
      OptSeq(<<L("some"), S1>>), L("changes")>>,
    <<OptSeq(<<L("client"), S1>>), OptSeq(<<L("ne"), S1>>), L("kuch"), S1,
      L("changes"), S1, L("kiye")>>,
    <<L("would"), S1, L("like"), S1, L("to"), S1, T({"add", "change", "modify"})>>,
    <<L("they"), S1, L("would"), S1, L("like"), S1, L("to"), S1, L("add")>>,
    <<L("kindly"), S1, L("update"), S1, L("the"), S1, L("quote")>>,
    <<T({"update", "updated"}), Greedy, L("quote"), Greedy, L("resend")>>,
    <<L("resend"), Greedy, L("updated")>>,
    <<L("existing"), S1, T({"quote", "booking", "itinerary"})>>,
    <<L("original"), S1, T({"quote", "booking", "request"})>>,
    <<L("increasing"), S1, L("the"), S1, L("number")>>,
    <<L("dates"), S1, L("also"), S1, L("need"), S1, L("to"), S1, T({"change", "changes"})>>,
    <<L("prefer"), S1, L("from"), S1, Greedy, S1, L("to"), S1, Greedy>> >>

multi_leg_patterns == <<
    <<W(1), S1, T({"and", "&", "+"}), S1, W(2)>>,
    <<W(1), S0, L(","), S0, W(2)>>,
    <<W(1), S1, L("aur"), S1, W(2)>>,
    <<W(1), S1, L("&"), S1, W(2)>>,
    <<L("for"), S1, W(1), Greedy, L("for"), S1, W(2)>>,
    <<W(1), L(":"), S1, Greedy, Frag(2), L(":")>>,
    <<L("group"), Greedy, Frag(1), Greedy, Frag(2)>>,
    <<L("travel"), S1, L("plans"), Greedy, Frag(1), S1, L("&"), S1, W(2)>> >>

AnyFound(ps, t) == \E k \in 1..Len(ps) : Found(ps[k], t)

is_modification(text, subject) ==
    \/ AnyFound(modification_patterns, Lower(subject))
    \/ AnyFound(modification_patterns, text)

\* we'?d?
WED == Alt(<< <<L("we"), Opt({"'"}), Opt({"d"})>>, <<L("wed")>> >>)
NIGHTS == {"night", "nights"}
\* for\s+(\w+),\s+we'?d?\s+like
ForWedLike(prep) == <<L(prep), S1, W(1), L(","), S1, WED, S1, L("like")>>

location_preference_patterns == <<
    ForWedLike("for") \o <<S1, Alt(<< <<L("to"), S1, L("stay")>>, <<D(0), S1, L("nights")>> >>)>>,
    ForWedLike("for") \o <<S1, Alt(<< <<D(0), S1, L("nights")>>, <<W(0), S1, L("hotel")>> >>)>>,
    <<L("for"), S1, W(1), Lazy, L("stay"), S1, D(0), S1, L("nights")>>,
    <<L("for"), S1, W(1), Lazy, T({"hotel", "accommodation", "stay"})>>,
    ForWedLike("in") \o <<S1, Alt(<< <<L("to"), S1, L("stay")>>, <<D(0), S1, L("nights")>> >>)>>,
    <<L("in"), S1, W(1), Lazy, L("stay"), S1, D(0), S1, L("nights")>> >>

preference_indicators == <<
    <<T({"for", "in"}), S1, W(1), Lazy,
      T({"night", "nights", "hotel", "star", "meal", "meals", "transport", "transportation"})>>,
    <<T({"for", "in"}), S1, W(1), Lazy,
      T({"activities", "tour", "visit", "visiting"})>> >>

travel_dest_patterns == <<
    <<L("trip"), S1, L("to"), S1, W(1)>>,
    <<L("travel"), S1, L("to"), S1, W(1)>>,
    <<L("visiting"), S1, W(1)>>,
    <<L("going"), S1, L("to"), S1, W(1)>> >>

\* match.group(g) of every finditer match of every pattern of ps, in order
GroupsOf(ms, g) == [i \in 1..Len(ms) |-> ms[i].c[g]]

RECURSIVE Groups(_, _, _)
Groups(ps, t, g) ==
    IF ps = <<>> THEN <<>>
    ELSE GroupsOf(FindIter(Head(ps), t), g) \o Groups(Tail(ps), t, g)

\* the captures longer than two characters
LongOnes(caps) == {caps[i] : i \in {j \in 1..Len(caps) : CharLen(caps[j]) > 2}}

\* the secondary indicator: some match of some paired-destination pattern
\* has two different names, both longer than two characters
TwoNames(ms) ==
    \E i \in 1..Len(ms) :
        /\ ms[i].c[1] # ms[i].c[2]
        /\ CharLen(ms[i].c[1]) > 2
        /\ CharLen(ms[i].c[2]) > 2

PairedDestinations(t) ==
    \E k \in 1..Len(multi_leg_patterns) : TwoNames(FindIter(multi_leg_patterns[k], t))

LocationSections(t) == LongOnes(Groups(location_preference_patterns, t, 1))
DestWithPrefs(t) == LongOnes(Groups(preference_indicators, t, 1))

is_multi_leg(text) ==
    IF Cardinality(LocationSections(text)) >= 2 THEN TRUE
    ELSE IF PairedDestinations(text) THEN TRUE
    ELSE IF Cardinality(DestWithPrefs(text)) >= 2 THEN TRUE
    ELSE FALSE

single_leg_patterns == <<
    <<L("trip"), S1, L("to"), S1, W(1), S1, L("for"), S1, D(0), S1,
      T({"adult", "adults", "traveler", "travelers"})>>,
    <<L("planning"), S1, L("a"), S1, D(0), S1, T(NIGHTS), S1, L("trip"), S1, L("to"), S1, W(1)>>,
    <<L("client"), S1, L("is"), S1, L("planning"), Lazy, L("trip"), S1, L("to"), S1, W(1)>>,
    <<W(1), S1, L("for"), S1, D(0), S1, T({"adult", "adults", "traveler", "travelers"})>> >>

\* single_dest_count: a list count (duplicates counted), names longer than 2
SingleDestCount(t) ==
    LET caps == Groups(travel_dest_patterns, t, 1)
    IN Cardinality({j \in 1..Len(caps) : CharLen(caps[j]) > 2})

is_single_leg(text) ==
    IF AnyFound(single_leg_patterns, text) THEN TRUE
    ELSE SingleDestCount(text) = 1

\* number of patterns of ps found in t
CountFound(ps, t) == Cardinality({k \in 1..Len(ps) : Found(ps[k], t)})

\* re.findall(r'for\s+(\w+),\s+we\'?d?\s+like', text): the set of names
WedLikeSections(t) == Range(Groups(<<ForWedLike("for")>>, t, 1))

dest_specific_patterns == <<
    <<L("for"), S1, W(0), Lazy, T(NIGHTS), Lazy, L("hotel")>>,
    <<L("in"), S1, W(0), Lazy, L("stay"), Lazy, T(NIGHTS)>> >>

transport_per_location == <<T({"transportation"}), Lazy, T({"private", "taxi", "shuttle", "public"})>>

Min(a, b) == IF a < b THEN a ELSE b
Max(a, b) == IF a > b THEN a ELSE b

\* Scores are in thousandths.
calculate_multi_leg_confidence(text) ==
    LET c1 == IF Cardinality(WedLikeSections(text)) >= 2 THEN 800 ELSE 0
        c2 == 600 * Cardinality({k \in 1..Len(dest_specific_patterns) :
                                   Len(FindIter(dest_specific_patterns[k], text)) >= 2})
        c3 == IF Len(FindIter(transport_per_location, text)) >= 2 THEN 400 ELSE 0
    IN Min(c1 + c2 + c3, 1000)

single_patterns == <<
    <<L("trip"), S1, L("to"), S1, W(0), S1, L("for"), S1, D(0)>>,
    <<L("planning"), S1, L("a"), Lazy, L("trip"), S1, L("to"), S1, W(0)>>,
    <<L("client"), S1, L("is"), S1, L("planning"), Lazy, L("to"), S1, W(0)>> >>

general_prefs == <<
    <<L("preferred"), S1, L("hotel"), S1, L("is")>>,
    <<L("they"), S1, L("would"), S1, L("like"), S1, L("to"), S1, L("include")>>,
    <<L("special"), S1, T({"request", "requests"})>>,
    <<L("budget"), S1, L("is"), S1, L("around")>> >>

\* The rounding of the IEEE-754 double sum 0.7*k + 0.2*j - 0.8*pen as the code
\* adds it up: below (-1), at (0) or above (+1) the double nearest the exact
\* sum.  One thousandth stands for the rounding error, which is far smaller
\* than any difference between two exact sums.
FloatDrift(k, j, pen) ==
    CASE k = 0 /\ j = 3 /\ pen = 0 -> 1
      [] k = 3 /\ j = 3 /\ pen = 1 -> 1
      [] k = 3 /\ j = 4 -> 1
      [] k = 1 /\ j >= 1 -> -1
      [] k = 2 /\ (j >= 1 \/ pen = 1) -> -1
      [] k = 3 /\ j = 0 -> -1
      [] k = 3 /\ j = 1 /\ pen = 1 -> -1
      [] OTHER -> 0

SingleLegScore(k, j, pen) == Max(700 * k + 200 * j - 800 * pen + FloatDrift(k, j, pen), 0)

calculate_single_leg_confidence(text) ==
    SingleLegScore(CountFound(single_patterns, text),
                   CountFound(general_prefs, text),
                   IF Cardinality(WedLikeSections(text)) >= 2 THEN 1 ELSE 0)

Classification(type, confidence, method) ==
    [type |-> type, confidence |-> confidence, method |-> method]

\* classify_inquiry with the multi-leg test ahead of the modification test
classify_inquiry_multi_leg_first(text, subject) ==
    LET combined_text == Lower(Combined(PyStr(subject), PyStr(text)))
    IN IF is_multi_leg(combined_text)
       THEN Classification(MULTI_LEG, 950, "pattern_based")
       ELSE IF is_modification(combined_text, subject.s)
       THEN Classification(MODIFICATION, 980, "pattern_based")
       ELSE Classification(SINGLE_LEG, 900, "pattern_based")

\* classify_inquiry without the confidence comparison: multi-leg whenever a
\* multi-leg tier holds
classify_inquiry_no_scoring(text, subject) ==
    LET combined_text == Lower(Combined(PyStr(subject), PyStr(text)))
    IN IF is_modification(combined_text, subject.s)
       THEN Classification(MODIFICATION, 980, "pattern_based")
       ELSE IF is_multi_leg(combined_text)
       THEN Classification(MULTI_LEG, 950, "pattern_based")
       ELSE Classification(SINGLE_LEG, 900, "pattern_based")

\* the decision of classify_inquiry when no modification pattern matches
LegType(is_multi, is_single, combined_text) ==
    IF is_multi /\ is_single
    THEN IF calculate_multi_leg_confidence(combined_text)
              > calculate_single_leg_confidence(combined_text)
         THEN Classification(MULTI_LEG, 950, "confidence_scoring")
         ELSE Classification(SINGLE_LEG, 950, "confidence_scoring")
    ELSE IF is_multi
    THEN Classification(MULTI_LEG, 950, "pattern_based")
    ELSE Classification(SINGLE_LEG, 900, "pattern_based")

\* classify_inquiry with the confidence of the two other types for a modification
classify_inquiry_modification_as_leg(text, subject) ==
    LET combined_text == Lower(Combined(PyStr(subject), PyStr(text)))
    IN IF is_modification(combined_text, subject.s)
       THEN Classification(MODIFICATION, 950, "pattern_based")
       ELSE LegType(is_multi_leg(combined_text), is_single_leg(combined_text), combined_text)

ClassifyText(combined_text, subject) ==
    IF is_modification(combined_text, subject.s)
    THEN Classification(MODIFICATION, 980, "pattern_based")
    ELSE LegType(is_multi_leg(combined_text), is_single_leg(combined_text), combined_text)

\* text and subject are Python values; subject.lower() needs a str (see Classify)
classify_inquiry(text, subject) ==
    ClassifyText(Lower(Combined(PyStr(subject), PyStr(text))), subject)

(***************************************************************************)
(* OptimizedLanguageDetector                                               *)
(***************************************************************************)
HINDI == "hindi"
HINDI_ENGLISH == "hindi_english"
HINGLISH == "hinglish"
ENGLISH == "english"
\* the keys of the scores dict, in insertion order
LanguageKeys == <<HINDI, HINDI_ENGLISH, HINGLISH, ENGLISH>>

\* letter runs that end in ya: a literal that begins with ya matches there
YaEnd == {"[ya]", "[pa.ya]", "[ssa.ya]"}
KE_LIYE == <<L("ke"), S1, L("liye")>>

hindi_devanagari_words ==
    <<Alt(<<Lit(Dv("vishay")), <<T(YaEnd)>> \o Tail(Lit(Dv("yatra"))), Lit(Dv("puchhtachh")),
            Lit(Dv("vayask")), Lit(Dv("bachche")), Lit(Dv("namaste")), Lit(Dv("dhanyavad"))>>)>>
hindi_devanagari_particles ==
    <<Alt(<<Lit(Dv("ke")) \o <<S1>> \o Lit(Dv("liye")),
            Lit(Dv("ki")) \o <<S1, T(YaEnd)>> \o Tail(Lit(Dv("yatra"))),
            Lit(Dv("mein")), Lit(Dv("se")), Lit(Dv("tak")), Lit(Dv("aur")),
            <<T(YaEnd), L("[+aa]")>> >>)>>

hindi_english_patterns == <<
    <<T({"namaste", "namaskar", "dhanyawad", "shukriya"})>>,
    <<T({"yatra", "safar", "ghumna", "jana"})>>,
    <<T({"vyakti", "log", "bachhe", "vyask"})>>,
    <<Alt(<<KE_LIYE, <<L("ki"), S1, L("yatra")>>, <<T({"mein", "se", "tak", "aur"})>> >>)>>,
    <<T({"paisa", "rupaye", "budget", "kharcha"})>>,
    <<T({"hotel", "resort", "ghar", "jagah"})>> >>

hinglish_patterns == <<
    <<Alt(<<KE_LIYE, <<T({"chahiye", "chahta", "hai", "hain"})>> >>)>>,
    <<T({"hamare", "humara", "client", "log", "pax"})>>,
    <<Alt(<< <<L("jana"), S1, L("chahta")>>, <<L("trip"), S1, L("chahiye")>>,
             KE_LIYE \o <<S1, L("trip")>> >>)>>,
    <<T({"jisme", "including", "aur", "and"})>>,
    <<T({"se", "from", "tak", "to", "between"})>>,
    <<T({"dobara", "again", "update", "send"})>> >>

english_patterns == <<
    <<T({"hope", "well", "client", "planning", "departing", "preferred"})>>,
    <<T({"adults", "children", "travelers", "travellers", "nights", "days"})>>,
    <<T({"hotel", "resort", "activities", "flights", "budget", "special"})>>,
    <<T({"request", "regards", "thanks", "kindly", "please"})>> >>

formal_patterns == <<
    <<L("hope"), S1, T({"you", "your"}), Greedy, L("well")>>,
    <<L("kindly"), S1, T({"send", "sending"})>>,
    <<L("please"), S1, W(0)>>,
    <<L("would"), S1, L("like"), S1, T({"to", "tour"})>>,
    <<L("we"), S1, L("are"), S1, L("planning")>> >>

\* substring tests: the marker with one space between its words
language_markers(k) ==
    CASE k = HINDI ->
            <<Lit(Dv("namaste")), Lit(Dv("namaskar")), Lit(Dv("dhanyavad")),
              Lit(Dv("kripaya")), Lit(Dv("vishay"))>>
      [] k = HINDI_ENGLISH ->
            <<<<L("namaste")>>, <<L("namaskar")>>, <<L("dhanyawad")>>, <<L("shukriya")>>,
              <<L("vishay")>> >>
      [] k = HINGLISH ->
            <<<<L("hamare"), L(SP), L("client")>>, <<T({"ke", "like"}), L(SP), L("liye")>>,
              <<L("chahiye")>>, <<L("jana"), L(SP), L("chahta")>>, <<L("dobara")>> >>
      [] k = ENGLISH ->
            <<<<L("hope"), L(SP), T({"you", "your"})>>, <<L("doing"), L(SP), L("well")>>,
              <<L("regards")>>, <<L("thanks")>>, <<L("kindly")>> >>

\* len(re.findall(r'[\u0900-\u097F]', text))
DevanagariChars(t) == CharsIn(t, 1, Len(t), DevAtoms)

\* len(re.findall(r'[\u0900-\u097F]+', text)): the maximal Devanagari runs
DevanagariRuns(t) ==
    Cardinality({i \in 1..Len(t) : t[i] \in DevAtoms /\ (i = 1 \/ t[i - 1] \notin DevAtoms)})

RECURSIVE SumMatches(_, _)
SumMatches(ps, t) ==
    IF ps = <<>> THEN 0 ELSE Len(FindIter(Head(ps), t)) + SumMatches(Tail(ps), t)

\* Scores are kept exact: a score x is the integer x * 100 * n, where n is
\* max(len(text), 1).
Scale(t) == 100 * Max(TextLen(t), 1)

calculate_hindi_score(text) ==
    LET n == Max(TextLen(text), 1)
        devanagari_chars == DevanagariChars(text)
        share == IF devanagari_chars > 0 THEN Min(80 * n, 200 * devanagari_chars) ELSE 0
    IN Min(100 * n,
           share + 15 * n * CountFound(language_markers(HINDI), text)
                 + 10 * n * (DevanagariRuns(text)
                             + SumMatches(<<hindi_devanagari_words, hindi_devanagari_particles>>, text)))

calculate_hindi_english_score(text_lower) ==
    LET n == Max(TextLen(text_lower), 1)
        bonus == IF Found(<<T({"ke", "like"}), L(SP), L("liye")>>, text_lower)
                    /\ Found(<<L("yatra")>>, text_lower) THEN 30 ELSE 0
    IN n * Min(100, 20 * CountFound(language_markers(HINDI_ENGLISH), text_lower)
                    + 15 * SumMatches(hindi_english_patterns, text_lower) + bonus)

calculate_hinglish_score(text_lower) ==
    LET n == Max(TextLen(text_lower), 1)
        english_words == Len(FindIter(<<T({"client", "trip", "hotel", "budget", "send", "update"})>>, text_lower))
        hindi_words == Len(FindIter(<<T({"hamare", "chahiye", "ke", "liye", "aur", "dobara"})>>, text_lower))
        mixed == IF english_words > 0 /\ hindi_words > 0 THEN 40 ELSE 0
    IN n * Min(100, 20 * CountFound(language_markers(HINGLISH), text_lower)
                    + 15 * SumMatches(hinglish_patterns, text_lower) + mixed)

calculate_english_score(text_lower) ==
    LET n == Max(TextLen(text_lower), 1)
    IN n * Min(100, 15 * CountFound(language_markers(ENGLISH), text_lower)
                    + 10 * SumMatches(english_patterns, text_lower)
                    + 20 * CountFound(formal_patterns, text_lower))

Scores(text) ==
    LET text_lower == Lower(text)
    IN [k \in Range(LanguageKeys) |->
          CASE k = HINDI -> calculate_hindi_score(text)
            [] k = HINDI_ENGLISH -> calculate_hindi_english_score(text_lower)
            [] k = HINGLISH -> calculate_hinglish_score(text_lower)
            [] k = ENGLISH -> calculate_english_score(text_lower)]

\* max(scores.keys(), key=...): the first key with the highest score
PrimaryLanguage(scores) ==
    LanguageKeys[CHOOSE i \in 1..4 :
                    /\ \A j \in 1..4 : scores[LanguageKeys[j]] <= scores[LanguageKeys[i]]
                    /\ \A j \in 1..(i - 1) : scores[LanguageKeys[j]] < scores[LanguageKeys[i]]]

has_devanagari(text) == \E i \in 1..Len(text) : text[i] \in DevAtoms
\* [a-zA-Z]: the word atoms that are neither Devanagari nor numbers
has_english_chars(text) ==
    \E i \in 1..Len(text) : IsWord(text[i]) /\ text[i] \notin DevAtoms \cup DigitAtoms

\* the two highest scores differ by less than 0.2
CloseScores(scores, u) ==
    \E i \in 1..4 : \E j \in (1..4) \ {i} :
        /\ \A k \in 1..4 : scores[LanguageKeys[k]] <= scores[LanguageKeys[i]]
        /\ \A k \in (1..4) \ {i} : scores[LanguageKeys[k]] <= scores[LanguageKeys[j]]
        /\ scores[LanguageKeys[i]] - scores[LanguageKeys[j]] < 20 * (u \div 100)

LanguageResult(language, confidence, details) ==
    [language |-> language, confidence |-> confidence, details |-> details]

\* the script branch with Devanagari-only text treated like mixed script
ScriptAnalysis_devanagari_as_mixed(text, primary_language, scores, u) ==
    LET confidence == scores[primary_language]
    IN IF has_devanagari(text)
       THEN IF primary_language = HINDI /\ confidence > 70 * (u \div 100)
            THEN LanguageResult(primary_language, confidence, "Pure Hindi with some English words")
            ELSE LanguageResult(HINGLISH, Max(80 * (u \div 100), scores[HINGLISH]),
                                "Mixed Devanagari and English script detected")
       ELSE LanguageResult(primary_language, confidence, "Standard detection")

\* the script branch with mixed script left to the scores
ScriptAnalysis_mixed_by_score(text, primary_language, scores, u) ==
    LET confidence == scores[primary_language]
    IN IF has_devanagari(text) /\ has_english_chars(text)
       THEN LanguageResult(primary_language, confidence, "Standard detection")
       ELSE IF has_devanagari(text)
       THEN LanguageResult(HINDI, Max(90 * (u \div 100), scores[HINDI]), "Pure Devanagari script")
       ELSE IF has_english_chars(text)
       THEN IF scores[HINGLISH] > 50 * (u \div 100)
            THEN LanguageResult(HINGLISH, scores[HINGLISH], "Hinglish detected in English script")
            ELSE IF scores[HINDI_ENGLISH] > 40 * (u \div 100)
            THEN LanguageResult(HINDI_ENGLISH, scores[HINDI_ENGLISH], "Hindi written in English script")
            ELSE LanguageResult(ENGLISH, Max(80 * (u \div 100), scores[ENGLISH]), "Pure English detected")
       ELSE LanguageResult(primary_language, confidence, "Standard detection")

\* the script branch of enhance_detection
ScriptAnalysis(text, primary_language, scores, u) ==
    LET confidence == scores[primary_language]
    IN IF has_devanagari(text) /\ has_english_chars(text)
       THEN IF primary_language = HINDI /\ confidence > 70 * (u \div 100)
            THEN LanguageResult(primary_language, confidence, "Pure Hindi with some English words")
            ELSE LanguageResult(HINGLISH, Max(80 * (u \div 100), scores[HINGLISH]),
                                "Mixed Devanagari and English script detected")
       ELSE IF has_devanagari(text)
       THEN LanguageResult(HINDI, Max(90 * (u \div 100), scores[HINDI]), "Pure Devanagari script")
       ELSE IF has_english_chars(text)
       THEN IF scores[HINGLISH] > 50 * (u \div 100)
            THEN LanguageResult(HINGLISH, scores[HINGLISH], "Hinglish detected in English script")
            ELSE IF scores[HINDI_ENGLISH] > 40 * (u \div 100)
            THEN LanguageResult(HINDI_ENGLISH, scores[HINDI_ENGLISH], "Hindi written in English script")
            ELSE LanguageResult(ENGLISH, Max(80 * (u \div 100), scores[ENGLISH]), "Pure English detected")
       ELSE LanguageResult(primary_language, confidence, "Standard detection")

\* enhance_detection without the last min(0.99, confidence)
enhance_detection_unclamped(text, primary_language, scores) ==
    LET u == Scale(text)
        n == u \div 100
        r == ScriptAnalysis(text, primary_language, scores, u)
        close == r.confidence < 60 * n /\ CloseScores(scores, u)
        confidence == IF close THEN Max(70 * n, r.confidence) ELSE r.confidence
    IN [language |-> r.language,
        confidence |-> confidence,
        close |-> close]

enhance_detection(text, primary_language, scores) ==
    LET u == Scale(text)
        n == u \div 100
        r == ScriptAnalysis(text, primary_language, scores, u)
        close == r.confidence < 60 * n /\ CloseScores(scores, u)
        confidence == IF close THEN Max(70 * n, r.confidence) ELSE r.confidence
    IN [language |-> r.language,
        confidence |-> Min(99 * n, confidence),
        close |-> close]

\* The result of detect_language from the scores and the enhanced detection.
\* Confidence and scores of the result are in thousandths, rounded down.
DetectionResult(n, scores, enhanced_result) ==
    [primary_language |-> enhanced_result.language,
     confidence |-> (10 * enhanced_result.confidence) \div n,
     scores |-> [k \in Range(LanguageKeys) |-> (10 * scores[k]) \div n],
     method |-> "pattern_based",
     close_scores |-> enhanced_result.close]

Detection(text, scores) ==
    DetectionResult(Scale(text) \div 100, scores,
                    enhance_detection(text, PrimaryLanguage(scores), scores))

detect_language(text) == Detection(text, Scores(text))

(***************************************************************************)
(* OptimizedTravelExtractor: tables                                        *)
(***************************************************************************)
\* self.destinations, the gazetteer
destinations == <<
    <<"Bali">>, <<"Singapore">>, <<"Dubai">>, <<"Maldives">>, <<"Goa">>, <<"Kerala">>,
    <<"Munnar">>, <<"Alleppey">>, <<"Kochi">>, <<"Chennai">>, <<"Mumbai">>,
    <<"Delhi">>, <<"Bengaluru">>, <<"Thailand">>, <<"Malaysia">>, <<"Japan">>,
    <<"Korea">>, <<"Vietnam">>, <<"Cambodia">>, <<"Europe">>, <<"London">>,
    <<"Paris">>, <<"Rome">>, <<"Switzerland">>, <<"Austria">>, <<"USA">>, <<"Canada">>,
    <<"Australia">>, <<"New", SP, "Zealand">>, <<"South", SP, "Africa">>,
    <<"Rajasthan">>, <<"Jaipur">>, <<"Udaipur">>, <<"Jodhpur">>,
    <<"Himachal", SP, "Pradesh">>, <<"Manali">>, <<"Shimla">>, <<"Dharamshala">>,
    <<"Kashmir">>, <<"Srinagar">>, <<"Ladakh">>, <<"Uttarakhand">>, <<"Rishikesh">>,
    <<"Haridwar">>, <<"Nainital">>, <<"Mussoorie">>, <<"Tamil", SP, "Nadu">>,
    <<"Ooty">>, <<"Kodaikanal">>, <<"Rameswaram">>, <<"Kanyakumari">>, <<"Karnataka">>,
    <<"Mysore">>, <<"Coorg">>, <<"Hampi">>, <<"Chikmagalur">>,
    <<"Andhra", SP, "Pradesh">>, <<"Hyderabad">>, <<"Tirupati">>, <<"Vizag">>,
    <<"Araku">> >>

indian_cities == {
    <<"mumbai">>, <<"delhi">>, <<"bangalore">>, <<"bengaluru">>, <<"chennai">>,
    <<"kolkata">>, <<"hyderabad">>, <<"pune">>, <<"ahmedabad">>, <<"jaipur">>,
    <<"surat">>, <<"lucknow">>, <<"kanpur">>, <<"nagpur">>, <<"indore">>, <<"thane">>,
    <<"bhopal">>, <<"visakhapatnam">>, <<"pimpri">>, <<"patna">>, <<"vadodara">>,
    <<"ghaziabad">>, <<"ludhiana">>, <<"agra">>, <<"nashik">>, <<"faridabad">>,
    <<"meerut">>, <<"rajkot">>, <<"kalyan">>, <<"vasai">>, <<"varanasi">>,
    <<"srinagar">>, <<"aurangabad">>, <<"dhanbad">>, <<"amritsar">>,
    <<"navi", SP, "mumbai">>, <<"allahabad">>, <<"howrah">>, <<"ranchi">>,
    <<"gwalior">>, <<"jabalpur">>, <<"coimbatore">>, <<"vijayawada">>, <<"jodhpur">>,
    <<"madurai">>, <<"raipur">>, <<"kota">>, <<"guwahati">>, <<"chandigarh">>,
    <<"solapur">> }

\* str.title() of a lower-case word
TitleAtom(a) ==
    IF \E i \in 1..Len(LowerSeq) : LowerSeq[i] = a
    THEN UpperSeq[CHOOSE i \in 1..Len(LowerSeq) : LowerSeq[i] = a /\ \A j \in 1..(i - 1) : LowerSeq[j] # a]
    ELSE a

(***************************************************************************)
(* OptimizedTravelExtractor: destinations, departure city, duration        *)
(***************************************************************************)
\* "to", "on", "between" and the words of the vocabulary that begin with them
TO_ON_BETWEEN == {"to", "on", "between", "tour", "tomorrow", "only"}

departure_patterns == <<
    <<L("departing"), S1, L("from"), S1, W(1)>>,
    <<L("departure"), S1, L("from"), S1, W(1)>>,
    <<L("from"), S1, W(1), S1, T(TO_ON_BETWEEN)>>,
    <<L("starting"), S1, L("from"), S1, W(1)>>,
    <<L("leaving"), S1, L("from"), S1, W(1)>>,
    <<L("flying"), S1, L("from"), S1, W(1)>>,
    <<L("travel"), S1, L("from"), S1, W(1)>> >>

\* the cities extract_destinations excludes: its five departure patterns
departure_cities(text_lower) == LongOnes(Groups(SubSeq(departure_patterns, 1, 5), text_lower, 1))

\* found_destinations, in gazetteer order
IsFound(destination, text_lower, excluded) ==
    LET dest_lower == Lower(destination)
    IN /\ Found(Lit(dest_lower), text_lower)
       /\ ~(Len(dest_lower) = 1 /\ dest_lower[1] \in excluded)

FoundDestinations(ds, text_lower, excluded) ==
    SelectSeq(ds, LAMBDA d : IsFound(d, text_lower, excluded))

\* list(set(found_destinations)): the found names in an order the hashing of
\* the run decides
Orderings(q) ==
    {o \in [1..Len(q) -> Range(q)] : \A i, j \in 1..Len(q) : i # j => o[i] # o[j]}

extract_destinations(text) ==
    LET text_lower == Lower(text)
    IN Orderings(FoundDestinations(destinations, text_lower, departure_cities(text_lower)))

\* the first city a pattern yields, in pattern order
RECURSIVE DepartureFrom(_, _)
DepartureFrom(ps, text) ==
    IF ps = <<>> THEN None
    ELSE LET m == Search(Head(ps), text)
             city == LowerAtom(m.c[1])
         IN IF m.ok /\ CharLen(city) > 2
                    /\ (<<city>> \in indian_cities
                        \/ \A i \in 1..Len(destinations) : Lower(destinations[i]) # <<city>>)
            THEN Str(<<TitleAtom(city)>>)
            ELSE DepartureFrom(Tail(ps), text)

extract_departure_city(text) == DepartureFrom(departure_patterns, text)

NIGHT == {"night", "nights"}
DAY == {"day", "days"}

duration_patterns == <<
    <<D(1), S1, T(NIGHT), S0, L("/"), S0, D(2), S1, T(DAY)>>,
    <<D(1), S1, T(NIGHT), S1, L("/"), S1, D(2), S1, T(DAY)>>,
    <<NumSfx({"n"}, 1), S0, L("/"), S0, NumSfx({"d", "days"}, 2)>>,
    <<NumSfx({"n"}, 1), S0, L("/"), S0, NumSfx({"d", "days"}, 2)>>,
    <<D(1), S1, T(NIGHT)>>,
    <<D(1), S1, T(DAY)>>,
    <<D(1), S1>> \o Lit(Dv("raat")),
    <<D(1), S1>> \o Lit(Dv("din")) >>

\* str(n) of a number
IntStr(n) == DigitSeq[n + 1]

\* f"{nights} nights / {days} days"
DurationText(nights, days) ==
    Str(<<IntStr(nights), SP, "nights", SP, "/", SP, IntStr(days), SP, "days">>)

RECURSIVE DurationFrom(_, _, _)
DurationFrom(ps, k, text) ==
    IF k > Len(ps) THEN None
    ELSE LET m == Search(ps[k], text)
         IN IF ~m.ok THEN DurationFrom(ps, k + 1, text)
            ELSE IF k <= 4 THEN DurationText(ToInt(m.c[1]), ToInt(m.c[2]))
            ELSE IF \E i \in m.s..(m.e - 1) : text[i] \in NIGHT
            THEN DurationText(ToInt(m.c[1]), ToInt(m.c[1]) + 1)
            ELSE IF \E i \in m.s..(m.e - 1) : text[i] \in DAY
            THEN DurationText(Max(1, ToInt(m.c[1]) - 1), ToInt(m.c[1]))
            ELSE DurationFrom(ps, k + 1, text)

extract_duration(text) == DurationFrom(duration_patterns, 1, text)

(***************************************************************************)
(* OptimizedTravelExtractor: hotel, meals, budget, dates                   *)
(***************************************************************************)
\* str.strip()
RECURSIVE Strip(_)
Strip(t) ==
    IF t = <<>> THEN t
    ELSE IF Head(t) \in WS THEN Strip(Tail(t))
    ELSE IF t[Len(t)] \in WS THEN Strip(SubSeq(t, 1, Len(t) - 1))
    ELSE t

\* match.group(1) of a group given by Pos(1) ... Pos(2)
Group1(t, m) == Slice(t, m.c[1], m.c[2])

\* Cut: the pattern ends inside the last atom it matches ('dinner' of
\* 'dinners', 'taxi' of 'taxis'), and the group ends there too
Cut == Mark(3)
CutAtom(a) ==
    CASE a = "dinners" -> "dinner" [] a = "Dinners" -> "Dinner"
      [] a = "taxis" -> "taxi" [] a = "Taxis" -> "Taxi"
      [] OTHER -> a

\* the group of a match, cut where the pattern says so
CutGroup(t, m) ==
    IF m.c[3] = "" THEN Group1(t, m)
    ELSE [i \in 1..(m.c[2] - m.c[1]) |->
             IF i = m.c[2] - m.c[1] THEN CutAtom(t[m.c[1] + i - 1]) ELSE t[m.c[1] + i - 1]]

HOTEL_TYPE == {"hotel", "resort", "villa", "hotels", "resorts", "villas"}
\* ([^.]+)
Rest == <<Pos(1), Ex1({"."}), Pos(2)>>

\* the first two patterns capture the number of stars, the others a text
hotel_patterns == <<
    <<D(1), L("-"), L("star"), S1, T(HOTEL_TYPE)>>,
    <<D(1), S1, L("star"), S1, T(HOTEL_TYPE)>>,
    <<Pos(1), L("water"), S1, L("villa"), Pos(2)>>,
    <<Pos(1), L("resort"), S1, L("villa"), Pos(2)>>,
    <<Pos(1), L("beach"), S1, L("resort"), Pos(2)>>,
    <<Pos(1), L("luxury"), S1, L("hotel"), Pos(2)>>,
    <<Pos(1), L("boutique"), S1, L("hotel"), Pos(2)>>,
    <<L("preferred"), S1, L("hotel"), S1, L("is"), S1>> \o Rest,
    <<L("hotel"), S1, L("preference"), L(":"), S1>> \o Rest,
    <<L("hotel"), L(":"), S1>> \o Rest >>

RECURSIVE HotelFrom(_, _, _)
HotelFrom(ps, k, text) ==
    IF k > Len(ps) THEN None
    ELSE LET m == Search(ps[k], text)
         IN IF ~m.ok THEN HotelFrom(ps, k + 1, text)
            ELSE IF k <= 2 THEN Str(<<m.c[1], "-", "star", SP, "hotel">>)
            ELSE Str(Strip(Group1(text, m)))

extract_hotel_preferences(text) == HotelFrom(hotel_patterns, 1, text)

MEALS == {"meal", "meals"}
DINNERS == {"dinner", "dinners"}
ALL_MEALS == <<Pos(1), L("all"), S1, T(MEALS), Pos(2)>>
BREAKFAST_ONLY == <<Pos(1), L("breakfast"), S1, T({"only"}), Pos(2)>>
BREAKFAST_AND_DINNER == <<Pos(1), L("breakfast"), S1, L("and"), S1, T(DINNERS), Pos(2), Cut>>

meal_patterns == <<
    ALL_MEALS,
    BREAKFAST_ONLY,
    BREAKFAST_AND_DINNER,
    <<Pos(1), L("indian"), L("-"), L("style"), S1, T(DINNERS), Pos(2)>>,
    <<Pos(1), L("veg"), S1, T(MEALS), Pos(2)>>,
    BREAKFAST_ONLY,
    <<L("with"), S1>> \o ALL_MEALS,
    <<L("with"), S1>> \o BREAKFAST_ONLY,
    <<L("with"), S1>> \o BREAKFAST_AND_DINNER,
    Lit(Dv("jismein")) \o <<S1>> \o BREAKFAST_ONLY >>

\* the group of the first pattern that matches
GroupOr(text, m, otherwise) == IF m.ok THEN Str(Strip(CutGroup(text, m))) ELSE otherwise

RECURSIVE FirstGroupText(_, _)
FirstGroupText(ps, text) ==
    IF ps = <<>> THEN None
    ELSE GroupOr(text, Search(Head(ps), text), FirstGroupText(Tail(ps), text))

extract_meal_preferences(text) == FirstGroupText(meal_patterns, text)

\* (\d+(?:,\d{3})*(?:\.\d{2})?), for amounts of up to two groups of three
Amount == <<Pos(1), D(0), OptSeq(<<L(","), T(Digits3), OptSeq(<<L(","), T(Digits3)>>)>>),
            OptSeq(<<L("."), T(Digits2)>>), Pos(2)>>
\* \s*(?:/\s*)?(?:per\s+)?
PerOpt == <<S0, OptSeq(<<L("/"), S0>>), OptSeq(<<L("per"), S1>>)>>

budget_patterns == <<
    <<L(RUPEE)>> \o Amount \o PerOpt \o <<T({"person", "persons"})>>,
    <<L(RUPEE)>> \o Amount \o PerOpt \o Lit(Dv("vyakti")),
    <<L("around"), S1, L(RUPEE)>> \o Amount,
    <<L("approx"), S1, L(RUPEE)>> \o Amount,
    <<L("~"), S0, L(RUPEE)>> \o Amount,
    <<L("budget"), S1, L("is"), S1, L(RUPEE)>> \o Amount,
    <<L("budget"), S1, L(RUPEE)>> \o Amount,
    <<L("budget"), S1, OptSeq(<<L("is"), S1>>), L("around"), S1>> \o Amount,
    <<L("budget"), S1, OptSeq(<<L("is"), S1>>), L("approx"), S1>> \o Amount >>

\* f"(rupee sign){amount} per person", whether or not the match has the sign
RECURSIVE BudgetFrom(_, _)
BudgetFrom(ps, text) ==
    IF ps = <<>> THEN None
    ELSE LET m == Search(Head(ps), text)
         IN IF m.ok THEN Str(<<RUPEE>> \o Group1(text, m) \o <<SP, "per", SP, "person">>)
            ELSE BudgetFrom(Tail(ps), text)

extract_budget(text) == BudgetFrom(budget_patterns, text)

\* month_to_number
MonthNames == <<"january", "february", "march", "april", "may", "june", "july", "august",
                "september", "october", "november", "december">>
MonthShort == <<"jan", "feb", "mar", "apr", "may", "jun", "jul", "aug", "sep", "oct", "nov",
                "dec">>
IsMonth(a) == \E i \in 1..12 : a \in {MonthNames[i], MonthShort[i]}
month_to_number(a) == CHOOSE i \in 1..12 : a \in {MonthNames[i], MonthShort[i]}

\* f"{day:02d}/{month_num:02d}/2024"
Pad2(n) == IF n < 10 THEN "0" \o IntStr(n) ELSE IntStr(n)
DateText(day, month) == Str(<<Pad2(ToInt(day)), "/", Pad2(month_to_number(month)), "/", "2024">>)

\* (\d{1,2})\s+(<month>), the month names in full
DayMonth(g) == <<D(g), S1, Elem("tok", Range(MonthNames), g + 1, <<>>)>>
DayWord(g) == <<D(g), S1, W(g + 1)>>

extract_start_date(text) ==
    LET full == Search(DayMonth(1), text)
        short == Search(<<D(1), S1, Elem("tok", Range(MonthNames) \cup Range(MonthShort), 2, <<>>)>>, text)
        between == Search(<<L("between"), S1>> \o DayWord(1), text)
    IN IF full.ok THEN DateText(full.c[1], full.c[2])
       ELSE IF short.ok THEN DateText(short.c[1], short.c[2])
       ELSE IF between.ok /\ IsMonth(between.c[2]) THEN DateText(between.c[1], between.c[2])
       ELSE None

end_date_patterns == <<
    <<L("between"), S1, D(0), S1, W(0), S1, L("and"), S1>> \o DayWord(1),
    <<L("to"), S1>> \o DayWord(1),
    DayWord(1) \o <<S1, L("tak")>> >>

RECURSIVE EndDateFrom(_, _)
EndDateFrom(ps, text) ==
    IF ps = <<>> THEN None
    ELSE LET m == Search(Head(ps), text)
         IN IF m.ok /\ IsMonth(m.c[2]) THEN DateText(m.c[1], m.c[2])
            ELSE EndDateFrom(Tail(ps), text)

extract_end_date(text) == EndDateFrom(end_date_patterns, text)

(***************************************************************************)
(* OptimizedTravelExtractor: activities, flights, special requests,        *)
(* deadline                                                                *)
(***************************************************************************)
activity_keywords == <<
    Spaced(<<"kintamani", "sunrise">>), Spaced(<<"ubud", "tour">>),
    Spaced(<<"tanah", "lot", "temple">>), Spaced(<<"gardens", "by", "the", "bay">>),
    Spaced(<<"sentosa", "tour">>), Spaced(<<"beach", "hopping">>),
    Spaced(<<"dudhsagar", "falls">>), Spaced(<<"pahalgam", "valley">>),
    Spaced(<<"gulmarg", "gondola">>), Spaced(<<"ubud", "cultural", "tour">>),
    Spaced(<<"dhow", "cruise">>), Spaced(<<"burj", "khalifa">>),
    Spaced(<<"kufri", "trip">>), Spaced(<<"mall", "road", "stroll">>),
    Spaced(<<"bangkok", "city", "tour">>), Spaced(<<"phi", "phi", "island">>),
    Spaced(<<"james", "bond", "island">>) >>

Title(t) == [i \in 1..Len(t) |-> TitleAtom(t[i])]

\* str.rstrip(c)
RECURSIVE RStrip(_, _)
RStrip(t, c) == IF t # <<>> /\ t[Len(t)] = c THEN RStrip(SubSeq(t, 1, Len(t) - 1), c) ELSE t

\* re.split(seps, t): the texts between the leftmost matches of seps
RECURSIVE Split(_, _)
Split(seps, t) ==
    LET m == Search(<<Alt(seps)>>, t)
    IN IF ~m.ok \/ m.e = m.s THEN <<t>>
       ELSE <<SubSeq(t, 1, m.s - 1)>> \o Split(seps, SubSeq(t, m.e, Len(t)))

\* the items of a split that are longer than 3 characters, title-cased
RECURSIVE Items(_)
Items(parts) ==
    IF parts = <<>> THEN <<>>
    ELSE LET item == Strip(RStrip(Strip(Head(parts)), "."))
         IN (IF TextLen(item) > 3 THEN <<Title(item)>> ELSE <<>>) \o Items(Tail(parts))

RECURSIVE KeywordsFound(_, _)
KeywordsFound(ks, text_lower) ==
    IF ks = <<>> THEN <<>>
    ELSE (IF Found(Lit(Head(ks)), text_lower) THEN <<Title(Head(ks))>> ELSE <<>>)
             \o KeywordsFound(Tail(ks), text_lower)

\* re.sub(r'[^\w\s]', '', activity.lower()).strip(), the white space collapsed
RECURSIVE Squeeze(_)
Squeeze(t) ==
    IF t = <<>> THEN t
    ELSE IF Head(t) \notin WS /\ ~IsWord(Head(t)) THEN Squeeze(Tail(t))
    ELSE IF Head(t) \in WS
    THEN LET r == Squeeze(Tail(t))
         IN IF r # <<>> /\ r[1] = SP THEN r ELSE <<SP>> \o r
    ELSE <<Head(t)>> \o Squeeze(Tail(t))
Normalized(activity) == Strip(Squeeze(Lower(activity)))

GenericActivities == {<<"activities">>, <<"tour">>, <<"visit">>, <<"include">>}

RECURSIVE Dedupe(_, _)
Dedupe(acts, seen) ==
    IF acts = <<>> THEN <<>>
    ELSE LET n == Normalized(Head(acts))
         IN IF n \notin seen /\ TextLen(n) > 3 /\ n \notin GenericActivities
            THEN <<Head(acts)>> \o Dedupe(Tail(acts), seen \cup {n})
            ELSE Dedupe(Tail(acts), seen)

AND_SEP == <<S1, L("and"), S1>>
ACTIVITY == {"activitie", "activities"}

extract_activities(text) ==
    LET include_match == Search(<<L("they"), S1, L("would"), S1, L("like"), S1, L("to"), S1,
                                  L("include"), S1>> \o Rest, text)
        activities_match == Search(<<T(ACTIVITY), Opt({":"}), S0>> \o Rest, text)
        included == IF include_match.ok
                    THEN Items(Split(<< <<L(","), S0, L("and"), S1>>, <<L(","), S0>>, AND_SEP>>,
                                     Group1(text, include_match)))
                    ELSE <<>>
        listed == IF activities_match.ok
                  THEN Items(Split(<<AND_SEP>>, Group1(text, activities_match)))
                  ELSE <<>>
    IN Dedupe(KeywordsFound(activity_keywords, Lower(text)) \o included \o listed, {})

FLIGHT == {"flight", "flights"}
AreOpt == OptSeq(<<L("are"), S1>>)
\* the patterns, and whether the pattern text contains 'not'
flight_patterns == <<
    [p |-> <<T(FLIGHT), S1, AreOpt, L("required")>>, not |-> FALSE],
    [p |-> <<T(FLIGHT), S1, AreOpt, L("not"), S1, L("required")>>, not |-> TRUE],
    [p |-> <<T(FLIGHT), S1, AreOpt, L("needed")>>, not |-> FALSE],
    [p |-> <<T(FLIGHT), S1, AreOpt, L("not"), S1, L("needed")>>, not |-> TRUE],
    [p |-> <<T(FLIGHT), S1>> \o Lit(Dv("avashyak")) \o <<S1>> \o Lit(Dv("hain")), not |-> FALSE],
    [p |-> <<T(FLIGHT), S1, L("not"), S1, L("required")>>, not |-> TRUE] >>

Bool(b) == [ty |-> "bool", b |-> b]

RECURSIVE FlightFrom(_, _)
FlightFrom(ps, text) ==
    IF ps = <<>> THEN None
    ELSE IF Found(Head(ps).p, text)
    THEN Bool(~(Head(ps).not \/ Found(<<T({"not", "cannot"}), L(SP), L("required")>>, Lower(text))))
    ELSE FlightFrom(Tail(ps), text)

extract_flight_requirement(text) == FlightFrom(flight_patterns, text)

special_request_patterns == <<
    <<L("special"), S1, L("request"), L(":"), S0>> \o Rest,
    <<L("special"), S1, T({"request", "requests"}), L(":"), S0>> \o Rest,
    Lit(Dv("vishesh")) \o <<S1>> \o Lit(Dv("anurodh")) \o <<L(":"), S0>> \o Rest,
    <<Pos(1), L("wheelchair"), S1, L("access"), Pos(2)>>,
    <<Pos(1), L("birthday"), S1, L("cake"), Pos(2)>>,
    <<Pos(1), L("romantic"), S1, L("setup"), Pos(2)>>,
    <<Pos(1), L("visa"), S1, L("assistance"), Pos(2)>>,
    <<Pos(1), L("airport"), S1, L("pickup"), Pos(2)>> >>

\* re.sub(r'^(special\s+request[s]?\s*[:;]?\s*|includes?\s+)', '', request)
CutPrefix(request, m) ==
    Strip(RStrip(Strip(IF m.ok THEN SubSeq(request, m.e, Len(request)) ELSE request), ","))

Cleaned(request) ==
    CutPrefix(request,
              Match(<<Alt(<< <<L("special"), S1, T({"request", "requests"}), S0, Opt({":", ";"}), S0>>,
                             <<T({"include", "includes"}), S1>> >>)>>, request, 1, NoCaps))

\* the cleaned requests of all matches of all patterns
CleanedGroups(text, ms) == [i \in 1..Len(ms) |-> Cleaned(Strip(Group1(text, ms[i])))]

RECURSIVE Requests(_, _)
Requests(ps, text) ==
    IF ps = <<>> THEN <<>>
    ELSE CleanedGroups(text, FindIter(Head(ps), text)) \o Requests(Tail(ps), text)

RECURSIVE UniqueRequests(_, _)
UniqueRequests(rs, seen) ==
    IF rs = <<>> THEN <<>>
    ELSE IF TextLen(Head(rs)) <= 2 \/ Lower(Head(rs)) \in seen THEN UniqueRequests(Tail(rs), seen)
    ELSE <<Head(rs)>> \o UniqueRequests(Tail(rs), seen \cup {Lower(Head(rs))})

extract_special_requests(text) ==
    LET unique_requests == UniqueRequests(Requests(special_request_patterns, text), {})
    IN IF unique_requests = <<>> THEN None ELSE Str(Join(unique_requests, <<";", SP>>))

deadline_patterns == <<
    <<Pos(1), L("asap"), Pos(2)>>,
    <<Pos(1), L("by"), S1, L("eod"), Pos(2)>>,
    <<Pos(1), L("by"), S1, L("tomorrow"), Pos(2)>>,
    <<L("within"), S1, Pos(1), D(0), Pos(2), S1, T(DAY)>>,
    <<L("send"), S1, Greedy, S1, Pos(1), L("asap"), Pos(2)>>,
    <<L("send"), S1, Greedy, S1, Pos(1), L("by"), S1, L("eod"), Pos(2)>>,
    <<L("send"), S1, Greedy, S1, Pos(1), L("by"), S1, L("tomorrow"), Pos(2)>> >>

extract_deadline(text) == FirstGroupText(deadline_patterns, text)

(***************************************************************************)
(* OptimizedTravelExtractor: travelers                                     *)
(***************************************************************************)
ADULTS == {"adult", "adults"}
\* children? is "childre" and an optional "n"
CHILDREN == {"children"}
\* "child" also begins "children"
CHILD == {"child", "children"}
TRAVELERS == {"traveler", "travelers"}
TRAVELLERS == {"traveller", "travellers"}

\* \s*(?:and|&|\+)?\s*
AndOpt == <<S0, Opt({"and", "&", "+"}), S0>>
\* (\d+)\s+adults?\s*(?:and|&|\+)?\s*(\d+)\s+<kids>, groups g and g+1
AdultsAndKids(g, kids) == <<D(g), S1, T(ADULTS)>> \o AndOpt \o <<D(g + 1), S1, T(kids)>>

\* The patterns with the number of groups each has and whether the pattern
\* text contains 'including'.
Pat(p, n, including) == [p |-> p, n |-> n, including |-> including]

traveler_patterns == <<
    Pat(AdultsAndKids(1, CHILDREN), 2, FALSE),
    Pat(AdultsAndKids(1, CHILD), 2, FALSE),
    Pat(<<D(1), S1>> \o Lit(Dv("vayask")) \o <<S0, Opt({"[au.ra]", "&", "+"}), S0,
          D(2), S1>> \o Lit(Dv("bachch")) \o <<Opt({"[+e]"})>>, 2, FALSE),
    Pat(<<L("including"), S1>> \o AdultsAndKids(1, CHILDREN), 2, TRUE),
    Pat(<<L("including"), S1>> \o AdultsAndKids(1, CHILD), 2, TRUE),
    Pat(<<L("jisme"), S1>> \o AdultsAndKids(1, CHILDREN), 2, FALSE),
    Pat(<<D(1), S1, T(TRAVELERS), S0, L("("), L("including"), S1>>
            \o AdultsAndKids(2, CHILDREN) \o <<L(")")>>, 3, TRUE),
    Pat(<<D(1), S1, T(TRAVELLERS), S0, L("("), L("including"), S1>>
            \o AdultsAndKids(2, CHILDREN) \o <<L(")")>>, 3, TRUE),
    Pat(<<D(1), S1, T({"log", "pax"}), S0, L("("), L("jisme"), S1>>
            \o AdultsAndKids(2, CHILDREN) \o <<L(")")>>, 3, FALSE),
    \* (\d+)\s+adults?(?!\s+and|\s+&|\s+\+).  Before " and" the pattern still
    \* matches, as "<n> adult" with the s left over; that match is the one
    \* whose text does not contain 'adults'.
    Pat(<<D(1), S1, Alt(<< <<L("adults"), Nla(<< <<S1, T({"and", "&", "+"})>> >>)>>,
                          <<L("adult"), Nla(<< <<S1, T({"and", "&", "+"})>> >>)>>,
                          <<L("adults"), Pla(<< <<S1, T({"and", "&", "+"})>> >>)>> >>)>>, 1, FALSE),
    Pat(<<D(1), S1>> \o Lit(Dv("vayask")) \o <<Nla(<< <<S1, L("[au.ra]")>> >>)>>, 1, FALSE),
    Pat(<<D(1), S1, T(TRAVELERS)>>, 1, FALSE),
    Pat(<<D(1), S1, T(TRAVELLERS)>>, 1, FALSE),
    Pat(<<D(1), S1, L("pax")>>, 1, FALSE),
    Pat(<<D(1), S1, L("log")>>, 1, FALSE) >>

\* Optional numbers: NoneInt stands for None; \d+ never yields a negative.
NoneInt == -1

\* 'adults' in match.group(0).lower(): the match took a whole atom "adults"
\* and was not the left-over case above
HasAdults(t, m) ==
    /\ \E i \in m.s..(m.e - 1) : t[i] = "adults"
    /\ ~(t[m.e - 1] = "adults" /\ Found(<<Bol, S1, T({"and", "&", "+"})>>, SubSeq(t, m.e, Len(t))))
HasVayask(t, m) == \E i \in m.s..(m.e - 1) : t[i] = "[va.ya.sa]"
HasChild(t, m) ==
    \E i \in m.s..(m.e - 1) :
        \/ t[i] \in CHILD
        \/ t[i] = "[ba.ca]" /\ i + 3 <= m.e - 1 /\ t[i + 3] = "[+e]"

\* the first value the loop over the matches of one pattern returns, or NoneInt
RECURSIVE AdultsOfMatches(_, _, _)
AdultsOfMatches(pat, t, ms) ==
    IF ms = <<>> THEN NoneInt
    ELSE LET m == Head(ms)
         IN IF pat.n >= 2
            THEN ToInt(IF pat.including THEN m.c[2] ELSE m.c[1])
            ELSE IF HasAdults(t, m) \/ HasVayask(t, m) THEN ToInt(m.c[1])
            ELSE AdultsOfMatches(pat, t, Tail(ms))

RECURSIVE AdultsFrom(_, _)
AdultsFrom(pats, t) ==
    IF pats = <<>> THEN NoneInt
    ELSE LET v == AdultsOfMatches(Head(pats), t, FindIter(Head(pats).p, t))
         IN IF v # NoneInt THEN v ELSE AdultsFrom(Tail(pats), t)

extract_adults(text) == AdultsFrom(traveler_patterns, text)

RECURSIVE ChildrenOfMatches(_, _, _)
ChildrenOfMatches(pat, t, ms) ==
    IF ms = <<>> THEN NoneInt
    ELSE LET m == Head(ms)
         IN IF pat.n >= 3 THEN ToInt(m.c[3])
            ELSE IF pat.n = 2 /\ HasChild(t, m) THEN ToInt(m.c[2])
            ELSE ChildrenOfMatches(pat, t, Tail(ms))

RECURSIVE ChildrenFrom(_, _)
ChildrenFrom(pats, t) ==
    IF pats = <<>> THEN 0
    ELSE LET v == ChildrenOfMatches(Head(pats), t, FindIter(Head(pats).p, t))
         IN IF v # NoneInt THEN v ELSE ChildrenFrom(Tail(pats), t)

extract_children(text) == ChildrenFrom(traveler_patterns, text)

total_patterns == <<
    <<D(1), S1, T(TRAVELERS)>>,
    <<D(1), S1, T(TRAVELLERS)>>,
    <<D(1), S1, L("pax")>>,
    <<D(1), S1, L("log")>>,
    Lit(Dv("kul")) \o <<S1>> \o Lit(Dv("yatri")) \o <<S1, D(1)>> >>

RECURSIVE FirstGroup1(_, _)
FirstGroup1(ps, t) ==
    IF ps = <<>> THEN NoneInt
    ELSE LET m == Search(Head(ps), t)
         IN IF m.ok THEN ToInt(m.c[1]) ELSE FirstGroup1(Tail(ps), t)

\* the explicit total, or the sum of the adults and the children found
TotalOf(explicit, adults, children) ==
    IF explicit # NoneInt THEN explicit
    ELSE IF adults # NoneInt THEN adults + children
    ELSE NoneInt

extract_total_travelers(text) ==
    TotalOf(FirstGroup1(total_patterns, text), extract_adults(text), extract_children(text))

\* Python truthiness of an optional number
Truthy(n) == n # NoneInt /\ n # 0

\* the traveler part of cross_validate_results
CrossValidateTotal(adults, children, total) ==
    IF Truthy(adults) /\ children # NoneInt /\ ~Truthy(total)
    THEN adults + children
    ELSE total

(***************************************************************************)
(* OptimizedTravelExtractor.extract_all_fields                             *)
(***************************************************************************)
\* str.replace('hotel', new) on a hotel preference
ReplaceHotel(t, new) == [i \in 1..Len(t) |-> IF t[i] = "hotel" THEN new ELSE t[i]]

EndsWith(t, suffix) ==
    Len(t) >= Len(suffix) /\ SubSeq(t, Len(t) - Len(suffix) + 1, Len(t)) = suffix

INDIAN_STYLE == <<L("indian"), L("-"), L("style")>>

cross_validate_results(results, text) ==
    LET hotel == results.hotel_preferences
        meal == results.meal_preferences
    IN [results EXCEPT
          !.total_travellers =
              CrossValidateTotal(results.num_adults, results.num_children, @),
          !.hotel_preferences =
              IF hotel.ty = "str" /\ hotel.s # <<>> /\ EndsWith(hotel.s, <<"-", "star", SP, "hotel">>)
              THEN IF Found(<<T({"villa", "villas"})>>, text) THEN Str(ReplaceHotel(hotel.s, "villa"))
                   ELSE IF Found(<<T({"resort", "resorts"})>>, text) THEN Str(ReplaceHotel(hotel.s, "resort"))
                   ELSE hotel
              ELSE hotel,
          !.meal_preferences =
              IF /\ meal.ty = "str" /\ meal.s # <<>>
                 /\ Found(INDIAN_STYLE, Lower(text))
                 /\ Found(<<T(DINNERS)>>, Lower(text))
                 /\ ~Found(INDIAN_STYLE, Lower(meal.s))
              THEN Str(meal.s \o <<SP, "with", SP, "Indian", "-", "style", SP, "dinners">>)
              ELSE meal]

\* every extractor on the combined text; ds is the destination list, one of
\* extract_destinations(combined_text)
AllFields(combined_text, ds) ==
    cross_validate_results(
        [start_date |-> extract_start_date(combined_text),
         end_date |-> extract_end_date(combined_text),
         num_adults |-> extract_adults(combined_text),
         num_children |-> extract_children(combined_text),
         total_travellers |-> extract_total_travelers(combined_text),
         departure_city |-> extract_departure_city(combined_text),
         destinations |-> ds,
         total_duration |-> extract_duration(combined_text),
         hotel_preferences |-> extract_hotel_preferences(combined_text),
         meal_preferences |-> extract_meal_preferences(combined_text),
         activities |-> extract_activities(combined_text),
         needs_flight |-> extract_flight_requirement(combined_text),
         total_budget |-> extract_budget(combined_text),
         special_requirements |-> extract_special_requests(combined_text),
         deadline |-> extract_deadline(combined_text)],
        combined_text)

extract_all_fields(text, subject, ds) ==
    AllFields(Lower(Combined(PyStr(subject), PyStr(text))), ds)

(***************************************************************************)
(* OptimizedTravelAgentProcessor: structuring                              *)
(***************************************************************************)
\* Python truthiness of a str or None
NonEmpty(v) == v.ty = "str" /\ v.s # <<>>

\* [\w\.-]+
AddressPart == Ex1(NonWordAtoms \ {".", "-"})

\* sender is a str here
extract_customer_details(sender) ==
    LET email_match == Search(<<Pos(1), AddressPart, L("@"), AddressPart, L("."), W(0), Pos(2)>>, sender)
        lt == Search(<<L("<")>>, sender)
        at == Search(<<L("@")>>, sender)
    IN [email |-> IF email_match.ok THEN Group1(sender, email_match) ELSE sender,
        name |-> IF lt.ok THEN Strip(SubSeq(sender, 1, lt.s - 1))
                 ELSE IF at.ok
                 THEN Title([i \in 1..(at.s - 1) |-> IF sender[i] = "." THEN SP ELSE sender[i]])
                 ELSE <<"Unknown">>,
        raw_sender |-> sender]

structure_date_details(fields) ==
    [start_date |-> fields.start_date,
     end_date |-> fields.end_date,
     duration |-> fields.total_duration,
     has_specific_dates |-> NonEmpty(fields.start_date) \/ NonEmpty(fields.end_date)]

structure_traveler_details(fields) ==
    LET adults == fields.num_adults
        children == fields.num_children
        total == fields.total_travellers
    IN [total_travelers |-> IF ~Truthy(total) /\ adults # NoneInt
                            THEN adults + (IF Truthy(children) THEN children ELSE 0)
                            ELSE total,
        adults |-> adults,
        children |-> children,
        breakdown_available |-> adults # NoneInt]

\* the destination-specific sections, on the lower-cased text (re.IGNORECASE)
dest_patterns(destination) == <<
    <<L("for"), S1>> \o Lit(Lower(destination))
        \o <<LazyAll, Pla(<< <<L("for"), S1, W(0)>>, <<Eol>> >>)>>,
    <<L("in"), S1>> \o Lit(Lower(destination))
        \o <<LazyAll, Pla(<< <<L("in"), S1, W(0)>>, <<L("for"), S1, W(0)>>, <<Eol>> >>)>> >>

SectionOf(text, m, otherwise) == IF m.ok THEN Slice(text, m.s, m.e) ELSE otherwise

RECURSIVE DestSection(_, _)
DestSection(ps, text) ==
    IF ps = <<>> THEN <<>>
    ELSE SectionOf(text, Search(Head(ps), Lower(text)), DestSection(Tail(ps), text))

leg_meal_patterns == <<
    <<Pos(1), L("all"), L(SP), L("meals"), Pos(2)>>,
    <<Pos(1), L("breakfast"), L(SP), L("only"), Pos(2)>>,
    <<Pos(1), L("veg"), L(SP), L("meals"), Pos(2)>>,
    <<Pos(1), L("indian"), L("-"), L("style"), L(SP), L("dinners"), Pos(2)>>,
    <<Pos(1), L("breakfast"), L(SP), L("and"), L(SP), T(DINNERS), Pos(2), Cut>> >>

TRANSPORT == << <<Pos(1), L("private"), L(SP), L("car"), Pos(2)>>,
                <<Pos(1), T({"taxi", "taxis"}), Pos(2), Cut>>,
                <<Pos(1), L("public"), L(SP), L("transport"), Pos(2)>>,
                <<Pos(1), L("hotel"), L(SP), L("shuttle"), Pos(2)>> >>

transport_patterns == <<
    <<L("transportation"), Lazy, Alt(TRANSPORT)>>,
    <<Alt(TRANSPORT)>> >>

FirstOk(ps, section, m) ==
    IF m.ok THEN <<Str(CutGroup(section, m))>> ELSE <<>>

\* the first pattern that matches the lower-cased section: its group
RECURSIVE FirstGroups(_, _)
FirstGroups(ps, section) ==
    IF ps = <<>> THEN <<>>
    ELSE FirstOk(ps, section, Search(Head(ps), Lower(section))) \o FirstGroups(Tail(ps), section)

HeadOrNone(q) == IF q = <<>> THEN None ELSE Head(q)
FirstGroupOf(ps, section) == HeadOrNone(FirstGroups(ps, section))

leg_activity_keywords == <<
    <<"gardens", SP, "by", SP, "the", SP, "bay">>, <<"sentosa", SP, "tour">>,
    <<"beach", SP, "hopping">>, <<"dudhsagar", SP, "falls">>, <<"pahalgam", SP, "valley">>,
    <<"gulmarg", SP, "gondola">>, <<"ubud", SP, "cultural", SP, "tour">>,
    <<"kintamani", SP, "sunrise">>, <<"dhow", SP, "cruise">>, <<"burj", SP, "khalifa">>,
    <<"kufri", SP, "trip">>, <<"mall", SP, "road", SP, "stroll">> >>

NoDetails ==
    [duration |-> None, hotel |-> None, meals |-> None, activities |-> <<>>,
     transportation |-> None, special_requirements |-> None]

SectionDetails(dest_section, duration_match, hotel_match) ==
    [duration |-> IF duration_match.ok THEN Str(<<duration_match.c[1], SP, "nights">>) ELSE None,
     hotel |-> IF hotel_match.ok THEN Str(<<hotel_match.c[1], "-", "star", SP, "hotel">>)
               ELSE None,
     meals |-> FirstGroupOf(leg_meal_patterns, dest_section),
     activities |-> KeywordsFound(leg_activity_keywords, Lower(dest_section)),
     transportation |-> FirstGroupOf(transport_patterns, dest_section),
     special_requirements |-> None]

DetailsOf(dest_section) ==
    IF dest_section = <<>> THEN NoDetails
    ELSE SectionDetails(dest_section,
                        Search(<<D(1), S1, T(NIGHT)>>, Lower(dest_section)),
                        Search(<<D(1), L("-"), L("star"), S1,
                                 T({"hotel", "hotels", "resort", "resorts"})>>,
                               Lower(dest_section)))

\* text is a str here
extract_location_specific_details(destination, text) ==
    DetailsOf(DestSection(dest_patterns(destination), text))

\* dict.get(key, default) of the details: every key is present, so the value
\* stored under it is returned and the default is not used
Get(details, value, default) == value

Leg(destination, leg_details, fields) ==
    [destination |-> destination,
     duration |-> Get(leg_details, leg_details.duration, Str(<<"To", SP, "be", SP, "specified">>)),
     hotel |-> Get(leg_details, leg_details.hotel, fields.hotel_preferences),
     meals |-> Get(leg_details, leg_details.meals, fields.meal_preferences),
     activities |-> Get(leg_details, leg_details.activities, <<>>),
     transportation |-> Get(leg_details, leg_details.transportation, Str(<<"Not", SP, "specified">>)),
     special_requirements |-> Get(leg_details, leg_details.special_requirements, Str(<<>>))]

create_destination_legs(dests, fields) ==
    [i \in 1..Len(dests) |->
        Leg(dests[i], extract_location_specific_details(dests[i], fields._original_text.s),
            fields)]

LocationData(dests, multi, legs) ==
    [all_destinations |-> dests,
     destination_count |-> Len(dests),
     primary_destination |-> IF dests # <<>> THEN Str(dests[1]) ELSE None,
     has_legs |-> multi,
     legs |-> IF multi THEN legs ELSE <<>>]

\* legs for every record of more than one destination, whatever its type
structure_location_details_legs_for_all(fields, classification) ==
    LocationData(fields.destinations,
                 Len(fields.destinations) > 1,
                 create_destination_legs(fields.destinations, fields))

\* has_legs: whether the 'legs' key is present
structure_location_details(fields, classification) ==
    LocationData(fields.destinations,
                 classification.type = MULTI_LEG /\ Len(fields.destinations) > 1,
                 create_destination_legs(fields.destinations, fields))

structure_preference_details(fields) ==
    [hotel |-> fields.hotel_preferences,
     meals |-> fields.meal_preferences,
     activities |-> fields.activities,
     flight_required |-> fields.needs_flight,
     special_requirements |-> fields.special_requirements,
     has_preferences |-> \/ NonEmpty(fields.hotel_preferences)
                         \/ NonEmpty(fields.meal_preferences)
                         \/ fields.activities # <<>>]

structure_budget_details(fields) ==
    LET budget == fields.total_budget
    IN [amount |-> budget,
        currency |-> IF NonEmpty(budget) /\ RUPEE \in Range(budget.s)
                     THEN <<"INR">> ELSE <<"Not", SP, "specified">>,
        is_per_person |-> NonEmpty(budget)
                          /\ Found(<<L("per"), L(SP), L("person")>>, Lower(budget.s)),
        budget_provided |-> NonEmpty(budget)]

\* 'word' in body: the atoms of the modelled texts that contain the word
ADD == {"add", "adding", "added", "additional"}
TRAVELER == {"traveler", "travelers"}
PERSON == {"person", "persons"}
CHANGE == {"change", "changes", "changed"}
HOTEL == {"hotel", "hotels"}
UPGRADE == {"upgrade", "upgraded"}
URGENT == {"asap", "urgent", "urgently", "tomorrow"}
Has(s, body) == Found(<<T(s)>>, body)

\* body is a str here
extract_modification_details(text) ==
    LET body == Lower(text)
        changes ==
            (IF Has(ADD, body) /\ Has(DINNERS, body)
             THEN <<"Add Indian-style dinners to itinerary">> ELSE <<>>)
            \o (IF \/ Found(<<L("increasing"), L(SP), L("the"), L(SP), T({"number", "numbers"})>>, body)
                   \/ (Has(ADD, body) /\ (Has(TRAVELER, body) \/ Has(PERSON, body)))
                THEN <<"Increase number of travelers">> ELSE <<>>)
            \o (IF Has({"dates"}, body) /\ Has(CHANGE, body)
                THEN <<"Change travel dates">> ELSE <<>>)
            \o (IF Has(HOTEL, body) /\ (Has(CHANGE, body) \/ Has(UPGRADE, body))
                THEN <<"Modify hotel preferences">> ELSE <<>>)
    IN [changes |-> IF changes # <<>> THEN changes ELSE <<"General modifications requested">>,
        requires_quote_update |-> TRUE,
        urgency |-> IF Has(URGENT, body) THEN "high" ELSE "normal"]

NoModification == [changes |-> <<>>, requires_quote_update |-> FALSE, urgency |-> ""]

\* The result without inquiry_id and processed_at, which depend on the clock.
\* has_modification_details: whether the 'modification_details' key is present.
structure_extracted_data(fields, classification, language, email) ==
    [error |-> FALSE,
     inquiry_type |-> classification,
     language_info |-> language,
     customer_details |-> extract_customer_details(email.sender.s),
     date_details |-> structure_date_details(fields),
     traveler_details |-> structure_traveler_details(fields),
     location_details |-> structure_location_details(fields, classification),
     preference_details |-> structure_preference_details(fields),
     budget_details |-> structure_budget_details(fields),
     departure_city |-> fields.departure_city,
     deadline |-> fields.deadline,
     has_modification_details |-> classification.type = MODIFICATION,
     modification_details |-> IF classification.type = MODIFICATION
                              THEN extract_modification_details(email.body.s)
                              ELSE NoModification,
     completeness_score |-> NoneInt]

known_destinations == <<"bali", "singapore", "dubai", "maldives", "goa", "kerala", "thailand",
                        "malaysia", "japan", "europe", "usa", "canada", "australia">>

RECURSIVE SubjectDestinations(_, _)
SubjectDestinations(ks, subject_lower) ==
    IF ks = <<>> THEN <<>>
    ELSE (IF Found(<<L(Head(ks))>>, subject_lower) THEN <<Title(<<Head(ks)>>)>> ELSE <<>>)
             \o SubjectDestinations(Tail(ks), subject_lower)

extract_destinations_from_subject(subject) == SubjectDestinations(known_destinations, Lower(subject))

\* the points, in hundredths
RequiredPoints == 1200
OptionalPoints == 1333

\* bool(d) of a dict: whether it has a key
DictTruthy(d) == DOMAIN d # {}

\* any(v for v in d.values() if v not in [None, '', [], {}]), group by group
DateMeaningful(d) ==
    NonEmpty(d.start_date) \/ NonEmpty(d.end_date) \/ NonEmpty(d.duration) \/ d.has_specific_dates
PreferenceMeaningful(d) ==
    \/ NonEmpty(d.hotel) \/ NonEmpty(d.meals) \/ d.activities # <<>>
    \/ d.flight_required = Bool(TRUE) \/ NonEmpty(d.special_requirements) \/ d.has_preferences
BudgetMeaningful(d) ==
    NonEmpty(d.amount) \/ d.currency # <<>> \/ d.is_per_person \/ d.budget_provided

Points(b, n) == IF b THEN n ELSE 0

calculate_completeness_score(data) ==
    Min(10000,
        Points(DictTruthy(data.inquiry_type), RequiredPoints)
        + Points(DictTruthy(data.language_info), RequiredPoints)
        + Points(DictTruthy(data.customer_details), RequiredPoints)
        + Points(DictTruthy(data.location_details), RequiredPoints)
        + Points(DictTruthy(data.traveler_details), RequiredPoints)
        + Points(DateMeaningful(data.date_details), OptionalPoints)
        + Points(PreferenceMeaningful(data.preference_details), OptionalPoints)
        + Points(BudgetMeaningful(data.budget_details), OptionalPoints))

ValidateTotal(adults, children, total) ==
    IF Truthy(adults) /\ children # NoneInt /\ Truthy(total) /\ total # adults + children
    THEN Max(total, adults + children)
    ELSE total

\* validate_and_enhance_data without the retry on the subject line
validate_and_enhance_data_no_fallback(data, subject) ==
    LET t == data.traveler_details
        enhanced ==
            [data EXCEPT
               !.traveler_details.total_travelers = ValidateTotal(t.adults, t.children, @)]
    IN [enhanced EXCEPT !.completeness_score = calculate_completeness_score(enhanced)]

validate_and_enhance_data(data, subject) ==
    LET t == data.traveler_details
        l == data.location_details
        subject_destinations == extract_destinations_from_subject(subject)
        enhanced ==
            [data EXCEPT
               !.traveler_details.total_travelers = ValidateTotal(t.adults, t.children, @),
               !.location_details =
                   IF l.destination_count = 0 /\ subject_destinations # <<>>
                   THEN [l EXCEPT !.all_destinations = subject_destinations,
                                  !.destination_count = Len(subject_destinations),
                                  !.primary_destination = Str(subject_destinations[1])]
                   ELSE l]
    IN [enhanced EXCEPT !.completeness_score = calculate_completeness_score(enhanced)]

\* create_error_response, the clock-dependent fields left out; sender is a str here
create_error_response(sender) ==
    [error |-> TRUE,
     customer_details |-> extract_customer_details(sender),
     completeness_score |-> 0]

(***************************************************************************)
(* EnhancedNERExtractor (modules2222/extractor.py)                         *)
(*                                                                         *)
(* The patterns are matched with re.IGNORECASE against the text as given.  *)
(* A Devanagari alternative of a pattern is written when the vocabulary    *)
(* has its word.  Confidences are in thousandths.                          *)
(***************************************************************************)
Number(n) == [ty |-> "int", n |-> n]
List(q) == [ty |-> "list", items |-> q]
EmptyDict == [ty |-> "dict", keys |-> {}]

\* int() of a run of digits
IntOf(a) ==
    CASE a = "45" -> 45
      [] a = "45000" -> 45000
      [] a = "500000" -> 500000
      [] a = "000" -> 0
      [] a = "500" -> 500
      [] a = "00" -> 0
      [] a = "50" -> 50
      [] OTHER -> ToInt(a)

\* the result dict of an extraction; alternatives is list(set(results)), kept
\* as the set
Extraction(value, confidence, alternatives, extraction_details) ==
    [value |-> value, confidence |-> confidence, method |-> "rule_based",
     alternatives |-> alternatives, extraction_details |-> extraction_details]

Candidate(value, confidence, details) ==
    [value |-> value, confidence |-> confidence, details |-> details]

\* a candidate that stands for an exception raised while the matches are read
Raised == Candidate(None, -1, <<>>)

\* what an extraction method does instead of returning: it raises
Raises == [ty |-> "raise"]

\* the candidate with the highest confidence, the first of them:
\* confidence_scores.index(max(confidence_scores))
BestIdx(cands) ==
    Least({i \in 1..Len(cands) : \A j \in 1..Len(cands) : cands[j].confidence <= cands[i].confidence})

Best(cands, nothing) ==
    IF \E i \in 1..Len(cands) : cands[i].confidence < 0 THEN Raises
    ELSE IF cands = <<>> THEN Extraction(None, 0, {}, Str(nothing))
    ELSE Extraction(cands[BestIdx(cands)].value, cands[BestIdx(cands)].confidence,
                    {cands[i].value : i \in 1..Len(cands)},
                    Str(cands[BestIdx(cands)].details))

\* re.finditer of every pattern in turn: the matches with the index of their pattern
RECURSIVE AllMatches(_, _, _)
AllMatches(ps, k, text) ==
    IF k > Len(ps) THEN <<>>
    ELSE LET ms == FindIter(ps[k], text)
         IN [i \in 1..Len(ms) |-> [k |-> k, m |-> ms[i]]] \o AllMatches(ps, k + 1, text)

\* some atom of the matched text is in the set `atoms`
Matched(text, m, atoms) == \E i \in m.s..(m.e - 1) : text[i] \in atoms

PEOPLE == {"people", "People"}
PAX == {"pax"}
TRAVELER_WORDS == PEOPLE \cup PAX \cup TRAVELERS \cup ADULTS \cup {"log", "persons", "person"}
KIDS == {"kid", "kids"}

patterns_travelers == <<
    \* (?:family\s+of\s+|group\s+of\s+|total\s+of\s+|total\s+)(\d+)(?:\s+(?:people|pax|...))?
    <<Alt(<< <<L("family"), S1, L("of"), S1>>, <<L("group"), S1, L("of"), S1>>,
             <<L("total"), S1, L("of"), S1>>, <<L("total"), S1>> >>),
      D(1),
      Alt(<< <<S1, T(PEOPLE \cup PAX \cup {"log"} \cup TRAVELERS \cup ADULTS)>>,
             <<S1>> \o Lit(Dv("vyakti")), <<S1>> \o Lit(Dv("yatri")), <<>> >>)>>,
    \* (\d+)\s*(?:adults?)\s*(?:\+|and|\&)\s*(\d+)\s*(?:kids?|children?|child|...)
    <<D(1), S0, T(ADULTS), S0, T({"+", "and", "&"}), S0, D(2), S0,
      Alt(<< <<T(KIDS \cup CHILD)>>, Lit(Dv("bachche")) >>)>>,
    \* (\d+)\s*(?:people|persons?|travelers?|pax|adults?|log|...)
    <<D(1), S0,
      Alt(<< <<T(TRAVELER_WORDS)>>, Lit(Dv("yatri")), Lit(Dv("vyakti")), Lit(Dv("log")) >>)>>,
    \* we\s+are\s+a?\s*(?:group\s+of\s+)?(\d+)
    <<L("we"), S1, L("are"), S1, Opt({"a"}), S0, OptSeq(<<L("group"), S1, L("of"), S1>>), D(1)>>,
    \* for\s+(\d+)\s+(?:people|adults?|pax|...)
    <<L("for"), S1, D(1), S1,
      Alt(<< <<T(PEOPLE \cup ADULTS \cup PAX)>>, Lit(Dv("vyakti")) >>)>>,
    \* (\d+)\s+(?:log|...)
    <<D(1), S1, Alt(<< <<L("log")>>, Lit(Dv("vyakti")), Lit(Dv("yatri")), Lit(Dv("log")) >>)>>,
    \* ham\s+(\d+)\s+log|(\d+)\s+vyakti\s+ke\s+liye: group 1 or group 2
    <<Alt(<< Lit(Dv("ham")) \o <<S1, D(1), S1>> \o Lit(Dv("log")),
             <<D(2), S1>> \o Lit(Dv("vyakti")) \o <<S1>> \o Lit(Dv("ke")) \o <<S1>>
                 \o Lit(Dv("liye")) >>)>> >>

\* what one match adds to results, confidence_scores and extraction_details;
\* int(None) raises TypeError when group 2 matched and group 1 did not
TravelerCandidate(text, m) ==
    IF m.c[2] # ""
    THEN IF m.c[1] = "" THEN Raised
         ELSE Candidate(Number(IntOf(m.c[1]) + IntOf(m.c[2])), 950,
                        <<"Adults", ":", SP, m.c[1], ",", SP, "Children", ":", SP, m.c[2]>>)
    ELSE Candidate(Number(IntOf(m.c[1])),
                   IF Matched(text, m, PEOPLE \cup PAX \cup {"travelers"} \cup {"adults"})
                   THEN 900 ELSE 750,
                   <<"Total", SP, "travelers", ":", SP, m.c[1]>>)

TravelerCandidates(text, ms) == [i \in 1..Len(ms) |-> TravelerCandidate(text, ms[i].m)]

_extract_travelers(text) ==
    Best(TravelerCandidates(Lower(text), AllMatches(patterns_travelers, 1, Lower(text))),
         <<"No", SP, "traveler", SP, "count", SP, "found">>)

\* Budget.  Literals without a word boundary are the atoms of the vocabulary
\* that end (before the amount) or begin (after it) with them.
RS == {"rs", "travelers"}
RUPEES == {"rupee", "rupees"}
\* (?:Rs\.?|INR|(rupee sign)|rupees?)
Currency == Alt(<< <<T(RS), Opt({"."})>>, <<L("inr")>>, <<L(RUPEE)>>, <<T(RUPEES)>> >>)
\* ([\d,]+)(?:\.\d{2})?
Amounts == <<Pos(1), In1(DigitAtoms \cup {","}), Pos(2), OptSeq(<<L("."), T(DigitAtoms)>>)>>
\* (?:per\s+person|pp|each)
PerPerson == Alt(<< <<L("per"), S1, T({"person", "persons"})>>, <<L("pp")>>, <<L("each")>> >>)
\* \s*(?:rupees?|Rs\.?)?
RupeesOpt == <<S0, Alt(<< <<T(RUPEES)>>, <<T({"rs"}), Opt({"."})>>, <<>> >>)>>
\* the words of the vocabulary that begin with k
K_WORDS == {"k", "kids", "kerala", "kid"}

patterns_budget == <<
    <<L("budget"), Lazy, Currency, S0>> \o Amounts \o <<OptSeq(<<S0, PerPerson>>)>>,
    <<Currency, S0>> \o Amounts \o <<S0, PerPerson>>,
    <<L("around"), S1, Currency, S0>> \o Amounts,
    <<L("approx"), Opt({"."}), S1, Currency, S0>> \o Amounts,
    <<L("maximum"), S1, Currency, S0>> \o Amounts,
    <<L("within"), S1, Currency, S0>> \o Amounts,
    <<Pos(1), D(0), Pos(2), S0, T({"lakh", "lakhs"})>> \o RupeesOpt,
    <<Pos(1), D(0), Pos(2), S0, T({"thousand"} \cup K_WORDS)>> \o RupeesOpt,
    <<Pos(1), D(0), Pos(2), S0, L("crore")>> \o RupeesOpt >>

\* the unit each pattern matches after its number, if it matches one
PatternUnit(k) == CASE k = 7 -> "lakh" [] k = 8 -> "thousand" [] k = 9 -> "crore" [] OTHER -> "rupees"

\* the atoms of the vocabulary in which 'lakh', 'crore', 'thousand' or 'k',
\* 'pp', 'each' and 'budget' occur
HAS_LAKH == {"lakh", "lakhs"}
HAS_CRORE == {"crore"}
HAS_K == {"thousand"} \cup K_WORDS \cup {"bangkok", "trekking"}
HAS_PP == {"pp", "approx"}
HAS_EACH == {"each", "beach"}
HAS_BUDGET == {"budget"}

\* 'per person' in matched_text
HasPerPerson(text, m) ==
    \E i \in m.s..(m.e - 3) : text[i] = "per" /\ text[i + 1] = SP /\ text[i + 2] \in {"person", "persons"}

\* match.group(1).replace(',', '')
Digits(group) == SelectSeq(group, LAMBDA a : a # ",")

\* int() of digits written as several runs
RECURSIVE IntOfDigits(_, _)
IntOfDigits(ds, k) ==
    IF k = 0 THEN 0
    ELSE IntOfDigits(ds, k - 1) * (CASE Len(ds[k]) = 1 -> 10 [] Len(ds[k]) = 2 -> 100
                                      [] Len(ds[k]) = 3 -> 1000 [] Len(ds[k]) = 5 -> 100000
                                      [] OTHER -> 1000000)
           + IntOf(ds[k])

\* the multiplier of the 'special multipliers' chain
Multiplier(text, m) ==
    IF Matched(text, m, HAS_LAKH) THEN 100000
    ELSE IF Matched(text, m, HAS_CRORE) THEN 10000000
    ELSE IF Matched(text, m, HAS_K) THEN 1000
    ELSE 1

\* f"{amount:,}"
Pad3(n) == IF n < 10 THEN "00" \o ToString(n) ELSE IF n < 100 THEN "0" \o ToString(n) ELSE ToString(n)
RECURSIVE Grouped(_)
Grouped(n) == IF n < 1000 THEN <<ToString(n)>> ELSE Grouped(n \div 1000) \o <<",", Pad3(n % 1000)>>
formatted_amount(amount) == <<RUPEE>> \o Grouped(amount)

BudgetCandidate(text, k, m, number, amount) ==
    [number |-> number, amount |-> amount, pattern |-> k, matched_text |-> Slice(text, m.s, m.e),
     value |-> Str(formatted_amount(amount)),
     confidence |-> IF HasPerPerson(text, m) \/ Matched(text, m, HAS_PP \cup HAS_EACH) THEN 950
                    ELSE IF Matched(text, m, HAS_BUDGET) THEN 900 ELSE 800,
     details |-> (IF HasPerPerson(text, m) \/ Matched(text, m, HAS_PP \cup HAS_EACH)
                  THEN <<"Per", SP, "person", SP, "budget", ":", SP>>
                  ELSE IF Matched(text, m, HAS_BUDGET) THEN <<"Total", SP, "budget", ":", SP>>
                  ELSE <<"Amount", SP, "found", ":", SP>>) \o formatted_amount(amount)]

\* int('') raises ValueError, which skips the match
RECURSIVE BudgetCandidates(_, _, _)
BudgetCandidates(text, ms, i) ==
    IF i > Len(ms) THEN <<>>
    ELSE (IF Digits(Group1(text, ms[i].m)) = <<>> THEN <<>>
          ELSE <<BudgetCandidate(text, ms[i].k, ms[i].m,
                                 IntOfDigits(Digits(Group1(text, ms[i].m)),
                                             Len(Digits(Group1(text, ms[i].m)))),
                                 IntOfDigits(Digits(Group1(text, ms[i].m)),
                                             Len(Digits(Group1(text, ms[i].m))))
                                     * Multiplier(text, ms[i].m))>>)
         \o BudgetCandidates(text, ms, i + 1)

_extract_budget(text) ==
    Best(BudgetCandidates(Lower(text), AllMatches(patterns_budget, 1, Lower(text)), 1),
         <<"No", SP, "budget", SP, "information", SP, "found">>)

\* Duration.
NIGHT_WORDS == {"night", "nights"}
DAY_WORDS == {"day", "days"}
STAY == {"stay", "homestay"}
patterns_duration == <<
    \* (\d+)\s*nights?\s*/?(?:\s*(\d+)\s*days?)?
    <<D(1), S0, T(NIGHT_WORDS), S0, Opt({"/"}), OptSeq(<<S0, D(2), S0, T(DAY_WORDS)>>)>>,
    \* (\d+)\s*days?\s*/?(?:\s*(\d+)\s*nights?)?
    <<D(1), S0, T(DAY_WORDS), S0, Opt({"/"}), OptSeq(<<S0, D(2), S0, T(NIGHT_WORDS)>>)>>,
    \* (\d+)N\s*/?\s*(\d+)D
    <<NumSfx({"n"}, 1), S0, Opt({"/"}), S0, NumSfx({"d"}, 2)>>,
    \* (\d+)D\s*/?\s*(\d+)N
    <<NumSfx({"d"}, 1), S0, Opt({"/"}), S0, NumSfx({"n"}, 2)>>,
    \* stay\s+(?:for\s+)?(\d+)\s*(?:nights?|days?)
    <<T(STAY), S1, OptSeq(<<L("for"), S1>>), D(1), S0, T(NIGHT_WORDS \cup DAY_WORDS)>>,
    \* (\d+)\s*(?:raat|raaten|din)
    <<D(1), S0, Alt(<<Lit(Dv("raat")), Lit(Dv("din"))>>)>>,
    \* (\d+)\s*night\s*(\d+)\s*day
    <<D(1), S0, L("night"), S0, D(2), S0, T(DAY_WORDS)>>,
    \* (\d+)\s*din\s*(\d+)\s*raat
    <<D(1), S0>> \o Lit(Dv("din")) \o <<S0, D(2), S0>> \o Lit(Dv("raat")) >>

\* match.groups() has one entry in the patterns with one group
GroupCount(k) == IF k \in {5, 6} THEN 1 ELSE 2

\* str() of an int
NumText(n) == IF n < 0 THEN <<"-", ToString(-n)>> ELSE <<ToString(n)>>
\* f"{nights} nights / {days} days"
NightsDays(nights, days) ==
    NumText(nights) \o <<SP, "nights", SP, "/", SP>> \o NumText(days) \o <<SP, "days">>

DurationOf(nights, days, confidence) ==
    <<Candidate(Str(NightsDays(nights, days)), confidence,
                <<"Duration", ":", SP>> \o NightsDays(nights, days))>>

\* groups[1] of a one-group pattern raises IndexError, which skips the match
DurationCandidate(text, k, m) ==
    IF Matched(text, m, NIGHT_WORDS)
    THEN (IF GroupCount(k) = 1 THEN <<>>
          ELSE DurationOf(IntOf(m.c[1]), IF m.c[2] # "" THEN IntOf(m.c[2]) ELSE IntOf(m.c[1]) + 1, 950))
    ELSE IF Matched(text, m, DAY_WORDS)
    THEN DurationOf(IF IntOf(m.c[1]) > 1 THEN Max(1, IntOf(m.c[1]) - 1) ELSE 0, IntOf(m.c[1]), 900)
    ELSE DurationOf(IntOf(m.c[1]) - 1, IntOf(m.c[1]), 700)

RECURSIVE DurationCandidates(_, _, _)
DurationCandidates(text, ms, i) ==
    IF i > Len(ms) THEN <<>>
    ELSE DurationCandidate(text, ms[i].k, ms[i].m) \o DurationCandidates(text, ms, i + 1)

_extract_duration(text) ==
    Best(DurationCandidates(Lower(text), AllMatches(patterns_duration, 1, Lower(text)), 1),
         <<"No", SP, "duration", SP, "found">>)

\* The keyword lists.  A keyword is tested as a substring of the lowered
\* text: `inside` is the set of atoms of the vocabulary in which it occurs.
\* The lists are cut down to the keywords that occur in the vocabulary, in
\* the order of the source.
Keyword(word, title, inside) == [word |-> word, title |-> title, inside |-> inside]
patterns_destinations == <<Keyword("kerala", "Kerala", {"kerala"}), Keyword("goa", "Goa", {"goa"}),
                  Keyword("thailand", "Thailand", {"thailand"}),
                  Keyword("bangkok", "Bangkok", {"bangkok"}), Keyword("bali", "Bali", {"bali"}),
                  Keyword("usa", "Usa", {"usa", "thousand"})>>
patterns_activities == <<Keyword("trekking", "Trekking", {"trekking"}), Keyword("spa", "Spa", {"spa"})>>
patterns_special_requirements == <<Keyword("vegetarian", "Vegetarian", {"vegetarian"}),
                          Keyword("honeymoon", "Honeymoon", {"honeymoon"}),
                          Keyword("guide", "Guide", {"guide"})>>

\* the keywords that occur in the text, in the order of the list
Present(text, keywords) ==
    SelectSeq(keywords, LAMBDA k : \E i \in 1..Len(text) : text[i] \in k.inside)

Titles(found) == [i \in 1..Len(found) |-> <<found[i].title>>]

\* the confidence of one destination, in thousandths
DestinationConfidence(text, w) ==
    IF \E i \in 2..(Len(text) - 1) : text[i - 1] = SP /\ text[i] = w /\ text[i + 1] = SP THEN 950
    ELSE IF text[1] = w \/ text[Len(text)] = w THEN 900
    ELSE IF \E i \in 1..(Len(text) - 1) : text[i] = w /\ text[i + 1] \in {",", "."} THEN 850
    ELSE 700

RECURSIVE Sum(_, _)
Sum(q, k) == IF k = 0 THEN 0 ELSE Sum(q, k - 1) + q[k]

\* '; '.join of f"Found: {title}"
RECURSIVE FoundDetails(_, _)
FoundDetails(found, k) ==
    IF k = 0 THEN <<>>
    ELSE (IF k = 1 THEN <<>> ELSE FoundDetails(found, k - 1) \o <<";", SP>>)
         \o <<"Found", ":", SP, found[k].title>>

\* the value is in the order of the list of names, whatever the order of the
\* text; the confidence is the mean, in thousandths rounded down
DestinationsOf(text, found) ==
    IF found = <<>>
    THEN Extraction(List(<<>>), 0, {}, Str(<<"No", SP, "destinations", SP, "found">>))
    ELSE Extraction(List(Titles(found)),
                    Sum([i \in 1..Len(found) |-> DestinationConfidence(text, found[i].word)],
                        Len(found)) \div Len(found),
                    {}, Str(FoundDetails(found, Len(found))))

_extract_destinations(text) == DestinationsOf(Lower(text), Present(Lower(text), patterns_destinations))

KeywordsOf(found, confidence, what, nothing) ==
    IF found = <<>> THEN Extraction(List(<<>>), 0, {}, Str(nothing))
    ELSE Extraction(List(Titles(found)), confidence, {},
                    Str(<<"Found", SP, ToString(Len(found)), SP, what>>))

_extract_activities(text) ==
    KeywordsOf(Present(Lower(text), patterns_activities), 800, "activities",
               <<"No", SP, "activities", SP, "found">>)

_extract_special_requirements(text) ==
    KeywordsOf(Present(Lower(text), patterns_special_requirements), 800, "requirements",
               <<"No", SP, "special", SP, "requirements", SP, "found">>)

\* Hotel preferences: the patterns that can match over the vocabulary.
Ends3 == {"3", "13", "23"}
Ends4 == {"4", "14", "24"}
Ends5 == {"5", "15", "25", "45"}
HAS_AC == {"beach", "each"}
patterns_hotel_preferences == <<
    \* (?:3|4|5)\s*star\s*hotel
    <<T(Ends3 \cup Ends4 \cup Ends5), S0, L("star"), S0, L("hotel")>>,
    \* (?:luxury|budget|mid-range|premium|deluxe)\s*(?:hotel|resort)
    <<L("budget"), S0, T({"hotel", "resort"})>>,
    \* resort|homestay|guest\s*house|lodge|cottage
    <<T({"resort", "homestay"})>>,
    \* ac|non-ac|air\s*conditioned
    <<T(HAS_AC)>>,
    \* room\s*service|wifi|pool|spa|gym|parking
    <<L("spa")>> >>

\* the part of an atom that a hotel pattern matches
HotelPart(a) ==
    CASE a \in HAS_AC -> "ac"
      [] a \in Ends3 -> "3"
      [] a \in Ends4 -> "4"
      [] a \in Ends5 -> "5"
      [] OTHER -> a

\* match.group(0).strip()
Preference(text, m) == [i \in 1..(m.e - m.s) |-> HotelPart(text[m.s + i - 1])]

Preferences(text, ms) == [i \in 1..Len(ms) |-> Preference(text, ms[i].m)]

HotelOf(found) ==
    IF found = <<>>
    THEN Extraction(List(<<>>), 0, {}, Str(<<"No", SP, "hotel", SP, "preferences", SP, "found">>))
    ELSE Extraction(List(found), 850, {},
                    Str(<<"Found", SP, ToString(Len(found)), SP, "preferences">>))

_extract_hotel_preferences(text) ==
    HotelOf(Preferences(Lower(text), AllMatches(patterns_hotel_preferences, 1, Lower(text))))

\* Phone numbers: a run of ten digits is an atom of its own kind.
TenDigits == {"9876543210"}
FourDigits == {}
DASH_WS == WS \cup {"-"}
phone_patterns == <<
    \* \+91[\s-]?\d{10}
    <<L("+"), L("91"), Opt(DASH_WS), T(TenDigits)>>,
    \* \d{10}
    <<T(TenDigits)>>,
    \* \+\d{1,3}[\s-]?\d{10,12}
    <<L("+"), T(DigitAtoms \cup {"91"}), Opt(DASH_WS), T(TenDigits)>>,
    \* \(\d{3}\)[\s-]?\d{3}[\s-]?\d{4}
    <<L("("), T(Digits3), L(")"), Opt(DASH_WS), T(Digits3), Opt(DASH_WS), T(FourDigits)>> >>

\* the text of the first pattern that is found
FirstFound(ps, text, hits) ==
    IF hits = {} THEN None
    ELSE Str(Slice(text, Search(ps[Least(hits)], text).s, Search(ps[Least(hits)], text).e))

_extract_phone(text) ==
    IF \E k \in 1..Len(phone_patterns) : Found(phone_patterns[k], text)
    THEN Extraction(FirstFound(phone_patterns, text,
                               {k \in 1..Len(phone_patterns) : Found(phone_patterns[k], text)}),
                    900, {}, Str(<<"Phone", SP, "number", SP, "extracted">>))
    ELSE Extraction(None, 0, {}, Str(<<"No", SP, "phone", SP, "number", SP, "found">>))

\* Email addresses: [A-Za-z0-9._%+-]+@[A-Za-z0-9.-]+\.[A-Z|a-z]{2,}, from a
\* word character on
AsciiWords(text) == {a \in Range(text) : IsWord(a) /\ a \notin DevAtoms}
Letters(text) == {a \in AsciiWords(text) : a \notin DigitAtoms \cup TenDigits \cup {"91"} /\ CharLen(a) >= 2}
email_pattern(text) ==
    <<T(AsciiWords(text)), Alt(<< <<In1(AsciiWords(text) \cup {".", "+", "-"})>>, <<>> >>), L("@"),
      In1(AsciiWords(text) \cup {".", "-"}), L("."), T(Letters(text))>>

_extract_email(text) ==
    IF Found(email_pattern(text), text)
    THEN Extraction(Str(Slice(text, Search(email_pattern(text), text).s,
                              Search(email_pattern(text), text).e)),
                    950, {}, Str(<<"Email", SP, "address", SP, "extracted">>))
    ELSE Extraction(None, 0, {}, Str(<<"No", SP, "email", SP, "found">>))

\* the result extract_with_confidence starts from and falls back to
DefaultExtraction == Extraction(None, 0, {}, EmptyDict)

FieldTypes == {"travelers", "budget", "duration", "destinations", "hotel_preferences",
               "activities", "special_requirements", "phone", "email"}

\* the method the field type routes to; a text that is not a str makes
\* every one of them raise (re.finditer, text.lower())
Routed(text, field_type) ==
    IF text.ty # "str" THEN Raises
    ELSE CASE field_type = "travelers" -> _extract_travelers(text.s)
           [] field_type = "budget" -> _extract_budget(text.s)
           [] field_type = "duration" -> _extract_duration(text.s)
           [] field_type = "destinations" -> _extract_destinations(text.s)
           [] field_type = "hotel_preferences" -> _extract_hotel_preferences(text.s)
           [] field_type = "activities" -> _extract_activities(text.s)
           [] field_type = "special_requirements" -> _extract_special_requirements(text.s)
           [] field_type = "phone" -> _extract_phone(text.s)
           [] field_type = "email" -> _extract_email(text.s)

Caught(routed) == IF routed = Raises THEN DefaultExtraction ELSE routed

extract_with_confidence(text, field_type) ==
    IF field_type \notin FieldTypes THEN DefaultExtraction
    ELSE Caught(Routed(text, field_type))

(***************************************************************************)
(* Inputs                                                                  *)
(***************************************************************************)
Wed == <<"we", "'", "d">>
Star(n) == <<n, "-", "star">>

\* "for <place>, we'd like <n> nights in a <k>-star hotel"
Section(prep, place, n, k) ==
    <<prep, SP, place, ",", SP>> \o Wed \o <<SP>>
        \o Spaced(<<"like", n, "nights", "in", "a">>) \o <<SP>> \o Star(k) \o <<SP, "hotel">>

ReplySubject == <<"Re", ":", SP, "Trip", SP, "Query">>

ClassifySubjects == {
    <<>>,
    <<"travel", SP, "plans", SP, "goa", SP, "&", SP, "bali">>,
    <<"Trip", SP, "to", SP, "Goa">> }

ClassifyIntros == {
    <<>>,
    Spaced(<<"trip", "to", "bali", "for", "4", "adults">>),
    Spaced(<<"client", "has", "made", "some", "changes">>),
    Spaced(<<"we", "are", "a", "group", "of", "7">>) }

ClassifyFirst == {
    <<>>,
    Section("for", "goa", "3", "5"),
    Spaced(<<"for", "goa", "hotel">>),
    Spaced(<<"in", "goa", "stay", "3", "nights">>),
    Spaced(<<"visiting", "goa">>) }

ClassifySecond == {
    <<>>,
    Section("for", "bali", "2", "3"),
    Section("For", "goa", "2", "3"),
    Spaced(<<"for", "bali", "tour">>),
    Spaced(<<"goa", "and", "bali">>),
    Spaced(<<"to", "be", "and", "so">>) }

ClassifyExtras == {
    <<>>,
    Spaced(<<"preferred", "hotel", "is", "villa">>) \o <<".", SP>>
        \o Spaced(<<"budget", "is", "around", "5">>),
    <<"transportation", ":", SP, "private", SP, "car", ".", SP,
      "transportation", ":", SP, "taxi">> }

\* sentences on one line, or one per line
ClassifyLines ==
    {Join(<<a, b, c>>, <<".", NL>>) : a \in ClassifyIntros, b \in ClassifyFirst,
                                      c \in ClassifySecond}

ClassifyBodies ==
    {Join(<<a, b, c, d>>, <<".", SP>>) : a \in ClassifyIntros, b \in ClassifyFirst,
                                         c \in ClassifySecond, d \in ClassifyExtras}
        \cup ClassifyLines

Email(subject, body, sender) ==
    [ty |-> "dict", subject |-> subject, body |-> body, sender |-> sender]

GoodSender == Str(<<"mark", ".", "henry", "@", "example", ".", "com">>)

\* the modification scenario, and one text for each kind of signal
ChangesBody ==
    Spaced(<<"Client", "has", "made", "some", "changes">>) \o <<",", SP>>
        \o Spaced(<<"please", "resend", "updated", "quote">>)
ChangesEmail == Email(Str(ReplySubject), Str(ChangesBody), GoodSender)
SignalEmails ==
    {ChangesEmail,
     Email(Str(<<>>), Str(ChangesBody), GoodSender),
     Email(Str(<<"Re", ":", SP, "travel">>), Str(<<"hello">>), GoodSender),
     Email(Str(<<>>), Str(Spaced(<<"kindly", "update", "the", "quote">>)), GoodSender),
     Email(Str(<<>>), Str(Spaced(<<"please", "resend", "the", "updated", "quote">>)), GoodSender),
     Email(Str(<<>>), Str(Spaced(<<"as", "per", "the", "original", "booking">>)), GoodSender),
     Email(Str(<<>>), Str(Spaced(<<"the", "existing", "itinerary", "for", "goa">>)), GoodSender)}

ClassifyEmails ==
    {Email(Str(su), Str(b), GoodSender) : su \in ClassifySubjects, b \in ClassifyBodies}
        \cup {Email(Str(ReplySubject), Str(b), GoodSender) : b \in ClassifyLines}
        \cup SignalEmails

\* Texts for the language detector: up to MaxPhrases phrases
MaxPhrases == 2

LanguagePhrases == {
    <<"12">>,
    <<"12", "/", "12", "/", "12", SP, "12", ":", "12", "!">>,
    Dv("goa"),
    Dv("goa") \o <<SP>> \o Dv("ki") \o <<SP>> \o Dv("yatra"),
    Spaced(<<"goa", "trip">>),
    Spaced(<<"hamare", "client", "ke", "liye">>),
    <<"namaste">>,
    Spaced(<<"yatra", "ke", "liye">>),
    Spaced(<<"hope", "you", "are", "doing", "well">>),
    <<"budget">> }


RECURSIVE PhraseTexts(_)
PhraseTexts(n) ==
    IF n = 0 THEN {<<>>}
    ELSE LET r == PhraseTexts(n - 1)
         IN r \cup {Join(<<a, b>>, <<SP>>) : a \in r, b \in LanguagePhrases}

LanguageSubjects == {<<>>, Dv("namaste")}

LanguageEmails ==
    {Email(Str(su), Str(b), GoodSender) : su \in LanguageSubjects, b \in PhraseTexts(MaxPhrases)}

\* Emails for the whole pipeline.  Counts of people, nights and days run up
\* to MaxCount.
MaxCount == 2
Counts == {IntStr(n) : n \in 0..MaxCount}

TripSubject == <<"Trip", SP, "to", SP, "Goa">>

TravelerBodies ==
    {Spaced(<<a, "adults", "and", c, "children">>) \o x :
        a \in Counts, c \in Counts,
        x \in {<<>>} \cup {<<",", SP, t, SP, "travelers">> : t \in Counts}}
      \cup {Spaced(<<a, "adults">>) : a \in Counts}
      \cup {Spaced(<<t, "travelers">>) : t \in Counts}

DurationBodies ==
    {Spaced(<<"trip", "for", n, w>>) : n \in Counts, w \in {"day", "days", "nights"}}
      \cup {Spaced(<<"trip", "for", n, "nights", "/", d, "days">>) : n \in Counts, d \in Counts}

Places == {<<"mumbai">>, <<"goa">>, <<"bali">>, <<"new", SP, "zealand">>}

DestinationBodies ==
    {Spaced(<<v, "from">>) \o <<SP>> \o x \o <<SP>> \o Spaced(<<"for", "a", "trip", "to">>)
         \o <<SP>> \o y :
        v \in {"departing", "leaving", "flying"}, x \in Places, y \in Places}
      \cup {<<"from", SP>> \o x \o <<SP, "to", SP>> \o y \o <<SP, "and", SP>> \o z :
              x \in Places, y \in Places, z \in Places \ {<<"new", SP, "zealand">>}}

PlansSubject == <<"travel", SP, "plans", SP, "goa", SP, "&", SP, "bali">>

LegIntros == {
    <<>>,
    Spaced(<<"we", "need", "a">>) \o <<SP>> \o Star("4") \o <<SP>>
        \o Spaced(<<"hotel", "with", "all", "meals">>) }

LegFirst == {
    Section("for", "goa", "3", "5"),
    Spaced(<<"for", "goa", "hotel">>),
    Spaced(<<"in", "goa", "stay", "3", "nights", "with", "breakfast", "and", "dinners">>),
    Spaced(<<"visiting", "goa">>) }

LegSecond == {
    Section("For", "Bali", "2", "3"),
    Spaced(<<"for", "bali", "tour", "by", "Taxis">>),
    Spaced(<<"in", "bali", "beach", "hopping", "and", "transportation", "by", "private", "car">>),
    Spaced(<<"goa", "and", "bali">>) }

LegBodies ==
    {Join(<<a, b, c>>, sep) : a \in LegIntros, b \in LegFirst, c \in LegSecond,
                              sep \in {<<".", SP>>, <<".", NL>>}}

PlainBodies == {
    <<>>,
    <<"hello">>,
    Spaced(<<"budget", "is", "around", "45000">>),
    Spaced(<<"flights", "are", "required">>),
    Spaced(<<"client", "has", "made", "some", "changes">>) \o <<".", SP>>
        \o Spaced(<<"please", "add", "dinners", "and", "change", "the", "hotel", "asap">>) }

Senders == {
    GoodSender,
    Str(<<"Mark", SP, "Henry", SP, "<", "mark", "@", "example", ".", "com", ">">>),
    Str(<<"unknown">>),
    None }

NotADict == [ty |-> "none"]

\* the scenario of test_user_emails.py: one destination, travelers, duration
\* and a budget per person
ThailandBody ==
    Spaced(<<"We", "are", "6", "adults", "and", "2", "children", "planning", "7", "nights", "/",
             "8", "days", "to", "Thailand">>)
        \o <<",", SP>> \o Spaced(<<"budget", "around", RUPEE>>) \o Spaced(<<"45000", "per", "person">>)
ThailandEmail == Email(Str(<<>>), Str(ThailandBody), GoodSender)

Emails ==
    {Email(Str(TripSubject), Str(b), GoodSender) :
        b \in TravelerBodies \cup DurationBodies \cup DestinationBodies}
      \cup {Email(Str(PlansSubject), Str(b), GoodSender) : b \in LegBodies}
      \cup {Email(su, b, se) :
              su \in {Str(<<>>), Str(TripSubject), None},
              b \in {Str(x) : x \in PlainBodies}
                      \cup {None, Str(Section("for", "goa", "3", "5") \o <<".", SP>>
                                          \o Section("for", "bali", "2", "3"))},
              se \in Senders}
      \cup {NotADict, ThailandEmail}

(***************************************************************************)
(* State machine                                                           *)
(***************************************************************************)
Idle == [ty |-> "none"]

\* f"{subject}{body}{sender}", the text the digest is taken of
Content(email) == PyStr(email.subject) \o PyStr(email.body) \o PyStr(email.sender)

\* f"INQ_{int(time.time())}_{md5(content)[:8]}".  The digest is kept as the
\* text it is the digest of, so two digests are equal only if the texts are.
generate_inquiry_id(email, now) ==
    [prefix |-> "INQ", timestamp |-> now, content_hash |-> Content(email)]

\* f"ERROR_{int(time.time())}" of create_error_response
ErrorId(now) == [prefix |-> "ERROR", timestamp |-> now, content_hash |-> <<>>]

\* One interpreter process that has served no call, its clock at second 0
FirstProcess == [now |-> 0, process |-> 1, returned |-> <<>>]

\* The calls this process has served for the email e that reached step 3
Served(e) ==
    {i \in 1..Len(run.returned) :
        /\ run.returned[i].process = run.process
        /\ run.returned[i].email_data = e
        /\ run.returned[i].extracted_fields # Idle}

\* a processor whose set order changes from call to call
SameIteration_per_call(ds) == ds = ds

\* Within one interpreter process the hashes of str are fixed, so a set built
\* the same way is iterated in the same order; a new process draws new hashes.
SameIteration(ds) ==
    \A i \in Served(email_data) : run.returned[i].extracted_fields.destinations = ds

InitClassify ==
    /\ email_data \in ClassifyEmails
    /\ pc = "classify"
    /\ language_info = Idle
    /\ classification_info = Idle
    /\ extracted_fields = Idle
    /\ structured_data = Idle
    /\ result = Idle
    /\ inquiry_id = Idle
    /\ run = FirstProcess
    /\ ner = Idle

\* Step 2 of process_inquiry: classify_inquiry(body, subject).  subject.lower()
\* raises AttributeError when the subject is not a str.
Classify ==
    /\ pc = "classify"
    /\ IF email_data.subject.ty = "str"
       THEN /\ classification_info' = classify_inquiry(email_data.body, email_data.subject)
            /\ pc' = "extract"
       ELSE /\ classification_info' = classification_info
            /\ pc' = "except"
    /\ UNCHANGED <<inquiry_id, run, ner, email_data, language_info, extracted_fields, structured_data, result>>

NextClassify == Classify

InitLanguage ==
    /\ email_data \in LanguageEmails
    /\ pc = "language"
    /\ language_info = Idle
    /\ classification_info = Idle
    /\ extracted_fields = Idle
    /\ structured_data = Idle
    /\ result = Idle
    /\ inquiry_id = Idle
    /\ run = FirstProcess
    /\ ner = Idle

\* The start of process_inquiry and its step 1.  email_data.get raises
\* AttributeError when email_data is not a dict; then generate_inquiry_id
\* reads the clock, and detect_language(f"{subject} {body}").
DetectLanguage ==
    /\ pc = "language"
    /\ IF email_data.ty = "dict"
       THEN /\ inquiry_id' = generate_inquiry_id(email_data, run.now)
            /\ language_info' =
                   detect_language(Combined(PyStr(email_data.subject), PyStr(email_data.body)))
            /\ pc' = "classify"
       ELSE /\ inquiry_id' = inquiry_id
            /\ language_info' = language_info
            /\ pc' = "except"
    /\ UNCHANGED <<run, ner, email_data, classification_info, extracted_fields, structured_data, result>>

NextLanguage == DetectLanguage

\* Step 3: extract_all_fields(body, subject), and the body kept under
\* '_original_text'.  The order of the destinations is the iteration order
\* of a set of str.
Extract ==
    /\ pc = "extract"
    /\ \E ds \in extract_destinations(Lower(Combined(PyStr(email_data.subject),
                                                     PyStr(email_data.body)))) :
          /\ SameIteration(ds)
          /\ extracted_fields' = extract_all_fields(email_data.body, email_data.subject, ds)
                                      @@ [_original_text |-> email_data.body]
    /\ pc' = "structure"
    /\ UNCHANGED <<inquiry_id, run, ner, email_data, language_info, classification_info, structured_data, result>>

\* Step 4: structure_extracted_data.  re.search raises TypeError on a sender
\* or a body that is not a str, and None has no lower().
Structure ==
    /\ pc = "structure"
    /\ IF /\ email_data.sender.ty = "str"
          /\ \/ email_data.body.ty = "str"
             \/ /\ classification_info.type # MODIFICATION
                /\ ~(classification_info.type = MULTI_LEG
                       /\ Len(extracted_fields.destinations) > 1)
       THEN /\ structured_data' = structure_extracted_data(extracted_fields, classification_info,
                                                           language_info, email_data)
            /\ pc' = "validate"
       ELSE /\ structured_data' = structured_data
            /\ pc' = "except"
    /\ UNCHANGED <<inquiry_id, run, ner, email_data, language_info, classification_info, extracted_fields, result>>

\* Step 5: validate_and_enhance_data, and the return
Validate ==
    /\ pc = "validate"
    /\ result' = validate_and_enhance_data(structured_data, email_data.subject.s)
    /\ pc' = "done"
    /\ UNCHANGED <<inquiry_id, run, ner, email_data, language_info, classification_info, extracted_fields,
                   structured_data>>

\* except Exception: return create_error_response(email_data, str(e)).  The
\* call is made in the handler, so what extract_customer_details raises there
\* leaves process_inquiry.
ErrorResponse ==
    /\ pc = "except"
    /\ IF email_data.ty = "dict" /\ email_data.sender.ty = "str"
       THEN /\ result' = create_error_response(email_data.sender.s)
            /\ inquiry_id' = ErrorId(run.now)
            /\ pc' = "done"
       ELSE /\ result' = result
            /\ inquiry_id' = inquiry_id
            /\ pc' = "raised"
    /\ UNCHANGED <<run, ner, email_data, language_info, classification_info, extracted_fields,
                   structured_data>>

Init ==
    /\ email_data \in Emails
    /\ pc = "language"
    /\ language_info = Idle
    /\ classification_info = Idle
    /\ extracted_fields = Idle
    /\ structured_data = Idle
    /\ result = Idle
    /\ inquiry_id = Idle
    /\ run = FirstProcess
    /\ ner = Idle

Next == DetectLanguage \/ Classify \/ Extract \/ Structure \/ Validate \/ ErrorResponse

Spec == Init /\ [][Next]_vars

SpecLanguage == InitLanguage /\ [][NextLanguage]_vars

SpecClassify == InitClassify /\ [][NextClassify]_vars

(***************************************************************************)
(* A session: calls of process_inquiry one after the other, while the      *)
(* clock runs, in one interpreter process or in several                    *)
(***************************************************************************)
MaxClock == 1
MaxCalls == 1

TwoPlaces == Section("for", "goa", "3", "5") \o <<".", SP>> \o Section("for", "bali", "2", "3")

\* two destinations; a plain text; a subject that is not a str, which ends
\* in the error record
SessionEmails == {Email(Str(<<>>), Str(TwoPlaces), GoodSender),
                  Email(Str(TripSubject), Str(<<"hello">>), GoodSender),
                  Email(None, Str(<<"hello">>), GoodSender)}

InitSession ==
    /\ email_data \in SessionEmails
    /\ pc = "language"
    /\ language_info = Idle
    /\ classification_info = Idle
    /\ extracted_fields = Idle
    /\ structured_data = Idle
    /\ result = Idle
    /\ inquiry_id = Idle
    /\ run = FirstProcess
    /\ ner = Idle

\* what a call returned: the record, with its inquiry_id, and what it was made of
Record ==
    [email_data |-> email_data, language_info |-> language_info,
     classification_info |-> classification_info, extracted_fields |-> extracted_fields,
     result |-> result, inquiry_id |-> inquiry_id, process |-> run.process]

\* int(time.time()) has moved on by a second
Tick ==
    /\ run.now < MaxClock
    /\ run' = [run EXCEPT !.now = @ + 1]
    /\ UNCHANGED <<email_data, pc, language_info, classification_info, extracted_fields,
                   structured_data, result, inquiry_id, ner>>

\* the caller keeps the record and calls process_inquiry again, in the
\* process `process`
Again(process) ==
    /\ pc = "done"
    /\ Len(run.returned) < MaxCalls
    /\ run' = [run EXCEPT !.returned = Append(@, Record), !.process = process]
    /\ email_data' \in SessionEmails
    /\ pc' = "language"
    /\ language_info' = Idle
    /\ classification_info' = Idle
    /\ extracted_fields' = Idle
    /\ structured_data' = Idle
    /\ result' = Idle
    /\ inquiry_id' = Idle
    /\ UNCHANGED ner

\* the next call of the same interpreter process
NextCall == Again(run.process)

\* the next call is made by a new interpreter process
Restart == Again(run.process + 1)

NextSession == Next \/ Tick \/ NextCall \/ Restart

SpecSession == InitSession /\ [][NextSession]_vars

(***************************************************************************)
(* main: the batch loop over the fetched inquiries                         *)
(***************************************************************************)
MaxBatch == 2

\* records as fetch_live_emails builds them: sender, subject and body are str
BatchEmails == {Email(Str(<<>>), Str(TwoPlaces), GoodSender),
                Email(Str(TripSubject), Str(<<"hello">>), GoodSender),
                ThailandEmail}

\* live_emails
Batches == [1..MaxBatch -> BatchEmails]

\* main has fetched live_emails and calls process_inquiry on the first one
InitBatch ==
    /\ run \in {FirstProcess @@ [live_emails |-> b, i |-> 1, reports |-> <<>>, sent |-> <<>>] :
                   b \in Batches}
    /\ email_data = run.live_emails[1]
    /\ pc = "language"
    /\ language_info = Idle
    /\ classification_info = Idle
    /\ extracted_fields = Idle
    /\ structured_data = Idle
    /\ result = Idle
    /\ inquiry_id = Idle
    /\ ner = Idle

\* excel_generator.generate_inquiry_report(result): the renderer writes a file
\* and returns its path, or raises; main has no handler inside the loop, so
\* what it raises is caught after the loop and main returns.
Render ==
    /\ pc = "done"
    /\ \E written \in BOOLEAN :
          IF written
          THEN /\ run' = [run EXCEPT !.reports = Append(@, inquiry_id)]
               /\ pc' = "send"
          ELSE /\ run' = run
               /\ pc' = "critical"
    /\ UNCHANGED <<email_data, language_info, classification_info, extracted_fields,
                   structured_data, result, inquiry_id, ner>>

\* mailer.send_email_with_attachment returns True or, on any exception, False;
\* main logs either and goes on to the next inquiry of the loop.
Send ==
    /\ pc = "send"
    /\ \E delivered \in BOOLEAN :
          run' = [run EXCEPT !.sent = Append(@, delivered),
                             !.returned = Append(@, Record),
                             !.i = IF run.i < Len(run.live_emails) THEN @ + 1 ELSE @]
    /\ IF run.i < Len(run.live_emails)
       THEN /\ email_data' = run.live_emails[run.i + 1]
            /\ pc' = "language"
            /\ language_info' = Idle
            /\ classification_info' = Idle
            /\ extracted_fields' = Idle
            /\ structured_data' = Idle
            /\ result' = Idle
            /\ inquiry_id' = Idle
       ELSE /\ pc' = "finished"
            /\ UNCHANGED <<email_data, language_info, classification_info, extracted_fields,
                           structured_data, result, inquiry_id>>
    /\ UNCHANGED ner

NextBatch == DetectLanguage \/ Classify \/ Extract \/ Structure \/ Validate \/ Render \/ Send

SpecBatch == InitBatch /\ [][NextBatch]_vars

(***************************************************************************)
(* EnhancedNERExtractor.extract_with_confidence(text, field_type)          *)
(***************************************************************************)
NerTexts == {
    <<>>,
    <<"hello">>,
    Spaced(<<"2", "adults", "and", "1", "children">>),
    Spaced(<<"family", "of", "4">>),
    Spaced(<<"group", "of", "10", "people">>),
    <<"5", SP>> \o Dv("vyakti") \o <<SP>> \o Dv("ke") \o <<SP>> \o Dv("liye"),
    Spaced(<<"budget", "for", "kerala", "trip", "is", RUPEE>>) \o <<"45", ",", "000">>,
    Spaced(<<"budget", "is", "around", "rs", "45000", "per", "person">>),
    Spaced(<<"2", "lakh">>),
    Spaced(<<"5", "crore">>),
    Spaced(<<"50", "thousand">>),
    Spaced(<<"5", "kids">>),
    Spaced(<<"budget", "rs", "45000">>),
    Spaced(<<"around", RUPEE>>) \o <<"45000">>,
    Spaced(<<"approx", "rs", "45000">>),
    Spaced(<<"rs", "500", "each">>),
    Spaced(<<"budget", "of", "2", "lakh", "and", "rs", "500">>),
    Spaced(<<"budget", "rs", ",", "45">>),
    Spaced(<<"budget", "for", "2", "travelers", "45000">>),
    Spaced(<<"3", "nights", "/", "4", "days">>),
    Spaced(<<"1", "day">>),
    Spaced(<<"5", "days">>),
    Spaced(<<"0", "days">>),
    Spaced(<<"2", "days", "/", "1", "nights">>),
    <<"3n", "/", "4d">>,
    Spaced(<<"stay", "for", "3", "nights">>),
    Spaced(<<"homestay", "for", "2", "days">>),
    <<"5", SP>> \o Dv("din"),
    Spaced(<<"3", "night", "4", "day">>),
    Spaced(<<"goa", "and", "bali">>),
    Spaced(<<"bali", "and", "goa">>),
    <<"Goa", ",", SP, "goa", ".">>,
    Spaced(<<"trip", "to", "kerala">>) \o <<",", SP, "goa", ".">>,
    Spaced(<<"Trip", "to", "Thailand", "and", "bangkok", "for", "2", "people">>),
    Spaced(<<"5", "star", "hotel">>),
    Spaced(<<"15", "star", "hotel", "and", "beach", "resort">>),
    Spaced(<<"budget", "resort", "and", "spa">>),
    Spaced(<<"trekking", "and", "spa">>),
    Spaced(<<"honeymoon", "trip", "vegetarian", "guide">>),
    <<"call", SP, "+", "91", SP, "9876543210">>,
    <<"call", SP, "9876543210">>,
    <<"+", "5", "-", "9876543210">>,
    <<"mail", SP, "hello", "@", "goa", ".", "com">>,
    <<"hello", ".", "kids", "@", "goa", ".", "com", ".">>,
    <<"hello", "@", "goa">> }

\* the texts, and a text that is not a str
NerInputs == {Str(t) : t \in NerTexts} \cup {None}
\* the field types, and a name that is none of them
NerFieldTypes == FieldTypes \cup {"nothing"}

Call(text, field_type) == [text |-> text, field_type |-> field_type, result |-> Idle]

InitNER ==
    /\ ner \in {Call(text, field_type) : text \in NerInputs, field_type \in NerFieldTypes}
    /\ email_data = NotADict
    /\ pc = "ner"
    /\ language_info = Idle
    /\ classification_info = Idle
    /\ extracted_fields = Idle
    /\ structured_data = Idle
    /\ result = Idle
    /\ inquiry_id = Idle
    /\ run = FirstProcess

ExtractWithConfidence ==
    /\ pc = "ner"
    /\ ner.result = Idle
    /\ ner' = [ner EXCEPT !.result = extract_with_confidence(ner.text, ner.field_type)]
    /\ UNCHANGED <<email_data, pc, language_info, classification_info, extracted_fields,
                   structured_data, result, inquiry_id, run>>

NextNER == ExtractWithConfidence

SpecNER == InitNER /\ [][NextNER]_vars

(***************************************************************************)
(* Properties of the classification                                        *)
(***************************************************************************)
Classified == classification_info # Idle
ClassifiedText == Lower(Combined(PyStr(email_data.subject), PyStr(email_data.body)))
ModificationHit == is_modification(ClassifiedText, email_data.subject.s)

\* C2: classification priority is modification, then multi_leg, then
\* single_leg: whenever any modification pattern matches the lowercased
\* subject and body, the inquiry is classified as modification, also when the
\* text holds two distinct destination-scoped sections.
C2_ModificationFirst ==
    (Classified /\ ModificationHit) => classification_info.type = MODIFICATION

\* a modification pattern matches a text that is multi-leg by its sections
C2_Witness ==
    /\ Classified
    /\ ModificationHit
    /\ is_multi_leg(ClassifiedText)
    /\ Cardinality(LocationSections(ClassifiedText)) >= 2
    /\ classification_info.type = MODIFICATION

\* C3 as stated: no modification pattern matches and a multi-leg tier holds,
\* so the result is multi_leg with confidence 0.95 whatever the single-leg
\* indicators are.
C3_MultiLegRegardless ==
    (Classified /\ ~ModificationHit /\ is_multi_leg(ClassifiedText))
        => (classification_info.type = MULTI_LEG /\ classification_info.confidence = 950)

\* C3 amended: no modification pattern matches and a multi-leg tier holds, so
\* the confidence is 0.95 and the type is multi_leg, unless single-leg
\* indicators are present too and the multi-leg confidence score does not
\* exceed the single-leg score: then the type is single_leg.
C3_MultiLegUnlessOutscored ==
    (Classified /\ ~ModificationHit /\ is_multi_leg(ClassifiedText))
        => /\ classification_info.confidence = 950
           /\ classification_info.type =
                 IF /\ is_single_leg(ClassifiedText)
                    /\ calculate_multi_leg_confidence(ClassifiedText)
                           <= calculate_single_leg_confidence(ClassifiedText)
                 THEN SINGLE_LEG ELSE MULTI_LEG

\* both kinds of indicator are present and the multi-leg score is the higher
C3_Witness ==
    /\ Classified
    /\ ~ModificationHit
    /\ is_multi_leg(ClassifiedText)
    /\ is_single_leg(ClassifiedText)
    /\ calculate_multi_leg_confidence(ClassifiedText)
           > calculate_single_leg_confidence(ClassifiedText)
    /\ classification_info.type = MULTI_LEG
    /\ classification_info.confidence = 950

(***************************************************************************)
(* Properties of the language detection                                    *)
(***************************************************************************)
Detected == language_info # Idle
DetectedText == Combined(PyStr(email_data.subject), PyStr(email_data.body))

\* C6: on a trivial text, one with no Devanagari character and no Latin
\* letter, detect_language returns the primary language english.
C6_TrivialIsEnglish ==
    (Detected /\ ~has_devanagari(DetectedText) /\ ~has_english_chars(DetectedText))
        => language_info.primary_language = ENGLISH

\* C7: a text with at least one Devanagari character and no Latin letter is
\* detected as hindi, whatever the four scores are.
C7_DevanagariIsHindi ==
    (Detected /\ has_devanagari(DetectedText) /\ ~has_english_chars(DetectedText))
        => language_info.primary_language = HINDI

\* Devanagari among digits and punctuation: the hindi score is below the 0.7
\* the mixed-script branch asks for, and the result is hindi all the same
C7_Witness ==
    /\ Detected
    /\ has_devanagari(DetectedText)
    /\ ~has_english_chars(DetectedText)
    /\ language_info.scores[HINDI] < 700
    /\ language_info.primary_language = HINDI
    /\ language_info.confidence = 900

(***************************************************************************)
(* Properties of process_inquiry                                           *)
(***************************************************************************)
Returned == pc = "done"
Structured == Returned /\ ~result.error
CombinedText == Lower(Combined(PyStr(email_data.subject), PyStr(email_data.body)))

\* C1: process_inquiry never lets an exception escape to its caller: every
\* call ends with a record returned, a structured one or an error record with
\* the customer details and a completeness_score of 0.
C1_NoExceptionEscapes ==
    /\ pc # "raised"
    /\ (Returned /\ result.error) => result.completeness_score = 0

\* C4: after structure_traveler_details and validate_and_enhance_data, when
\* both the adults and the children were found (adults = 0 included), the
\* record has total_travelers >= adults + children.
C4_TotalCoversBreakdown ==
    LET t == result.traveler_details
    IN (Structured /\ t.adults # NoneInt /\ t.children # NoneInt)
          => (t.total_travelers # NoneInt /\ t.total_travelers >= t.adults + t.children)

\* what C5 asks of a leg, given what the destination's span yields
LegFallsBack(leg, yield, prefs) ==
    /\ yield.duration = None => leg.duration = Str(<<"To", SP, "be", SP, "specified">>)
    /\ yield.hotel = None => leg.hotel = prefs.hotel
    /\ yield.meals = None => leg.meals = prefs.meals
    /\ yield.transportation = None => leg.transportation = Str(<<"Not", SP, "specified">>)
    /\ None \notin {leg.duration, leg.transportation}

\* C5: in every leg, a field the destination's span yields no value for
\* carries the whole-inquiry value (hotel, meals) or the marker 'To be
\* specified' (duration) or 'Not specified' (transportation), never null.
C5_LegsFallBack ==
    LET l == result.location_details
    IN (Structured /\ l.has_legs)
          => \A i \in 1..Len(l.legs) :
                LegFallsBack(l.legs[i],
                             extract_location_specific_details(l.legs[i].destination,
                                                               email_data.body.s),
                             result.preference_details)

\* the phrases that name a departure city
DepartureVerbs == {"departing", "departure", "starting", "leaving"}

\* the text names the place as the departure city
NamedAsDeparture(place, text) ==
    \/ Found(<<T(DepartureVerbs), S1, L("from"), S1>> \o Lit(place), text)
    \/ Found(<<L("from"), S1>> \o Lit(place) \o <<S1, T({"to", "on", "between"})>>, text)

\* C8: extract_destinations never returns a gazetteer name that the text
\* names as the departure city, after 'departing from', 'departure from',
\* 'starting from', 'leaving from', or in 'from X to/on/between'.
C8_DepartureCityExcluded ==
    extracted_fields # Idle
       => \A i \in 1..Len(extracted_fields.destinations) :
             ~NamedAsDeparture(Lower(extracted_fields.destinations[i]), CombinedText)

\* the duration C9 describes: both numbers kept, days = nights + 1, or
\* nights = max(days - 1, 0)
CanonicalDuration(text, both, nights, days) ==
    IF both.ok THEN DurationText(ToInt(both.c[1]), ToInt(both.c[2]))
    ELSE IF nights.ok THEN DurationText(ToInt(nights.c[1]), ToInt(nights.c[1]) + 1)
    ELSE IF days.ok THEN DurationText(Max(ToInt(days.c[1]) - 1, 0), ToInt(days.c[1]))
    ELSE None

\* C9: the duration is 'N nights / M days': both numbers as written when
\* both are given, days = nights + 1 when only the nights are given, and
\* nights = max(days - 1, 0) when only the days are given.
C9_DurationCanonical ==
    extracted_fields # Idle
       => extracted_fields.total_duration =
             CanonicalDuration(CombinedText,
                               Search(<<D(1), S1, T(NIGHT), S0, L("/"), S0, D(2), S1, T(DAY)>>,
                                      CombinedText),
                               Search(<<D(1), S1, T(NIGHT)>>, CombinedText),
                               Search(<<D(1), S1, T(DAY)>>, CombinedText))

\* a group has a sub-field with a non-empty extracted value
LocationFound(d) == d.all_destinations # <<>>
TravelersFound(d) == Truthy(d.total_travelers) \/ Truthy(d.adults) \/ Truthy(d.children)
BudgetFound(d) == NonEmpty(d.amount)

\* the score with each group counted if and only if it has such a sub-field
ScoreOfFound(data) ==
    3 * RequiredPoints
      + Points(LocationFound(data.location_details), RequiredPoints)
      + Points(TravelersFound(data.traveler_details), RequiredPoints)
      + Points(DateMeaningful(data.date_details), OptionalPoints)
      + Points(PreferenceMeaningful(data.preference_details), OptionalPoints)
      + Points(BudgetFound(data.budget_details), OptionalPoints)

\* C10: the completeness score counts a group if and only if one of its
\* sub-fields holds a non-empty extracted value; a group with nothing
\* extracted adds nothing.
C10_EmptyGroupsAddNothing ==
    Structured => result.completeness_score = Min(10000, ScoreOfFound(result))

(***************************************************************************)
(* Properties of EnhancedNERExtractor                                      *)
(***************************************************************************)
\* the call has returned
NerReturned == pc = "ner" /\ ner.result # Idle

\* nothing was extracted: the field type is unknown, the method raised, or it
\* found no match it could read
NothingExtracted(call) ==
    \/ call.field_type \notin FieldTypes
    \/ Routed(call.text, call.field_type) = Raises
    \/ Routed(call.text, call.field_type).confidence = 0

\* C11: extract_with_confidence never raises, and when no pattern matches or
\* an internal parsing step fails it returns value None, confidence 0.0 and
\* a diagnostic rationale that is a string.
C11_NullWithRationale ==
    NerReturned =>
        /\ ner.result # Raises
        /\ NothingExtracted(ner) =>
              /\ ner.result.value = None
              /\ ner.result.confidence = 0
              /\ ner.result.extraction_details.ty = "str"

(***************************************************************************)
(* Properties of a session                                                 *)
(***************************************************************************)
\* the earlier calls of the session that were given the email of this call
EarlierSame == {i \in 1..Len(run.returned) : run.returned[i].email_data = email_data}

\* C12: process_inquiry on the same email yields the same language_info,
\* inquiry type and extracted field blocks, with the destinations in the same
\* order and the same primary destination, every time it is run.
C12_SameEmailSameRecord ==
    pc = "done" =>
        \A i \in EarlierSame :
            /\ run.returned[i].language_info = language_info
            /\ run.returned[i].classification_info = classification_info
            /\ run.returned[i].extracted_fields = extracted_fields
            /\ run.returned[i].result = result

\* C13: no two records returned in a run have the same inquiry_id, whether
\* they come from the same clock second, from identical emails or from errors.
C13_IdsUnique ==
    pc = "done" =>
        \A i \in 1..Len(run.returned) :
            run.returned[i].process = run.process => run.returned[i].inquiry_id # inquiry_id

(***************************************************************************)
(* Properties of the single-destination inquiry                            *)
(***************************************************************************)
\* what the record of the Thailand scenario is to hold
ThailandRecord(r) ==
    /\ r.traveler_details.adults = 6
    /\ r.traveler_details.children = 2
    /\ r.traveler_details.total_travelers = 8
    /\ r.date_details.duration = Str(NightsDays(7, 8))
    /\ r.location_details.all_destinations = << <<"Thailand">> >>
    /\ r.budget_details.amount = Str(<<RUPEE, "45000", SP, "per", SP, "person">>)
    /\ r.budget_details.is_per_person
    /\ r.inquiry_type.type = SINGLE_LEG

\* C14: the Thailand scenario yields 6 adults, 2 children, 8 travelers,
\* '7 nights / 8 days', the destination Thailand, a budget of 45000 rupees per
\* person and the type single_leg; and every inquiry that names exactly one
\* destination and has no modification language is classified single_leg.
C14_OneDestinationIsSingleLeg ==
    Structured =>
        /\ email_data = ThailandEmail => ThailandRecord(result)
        /\ (Len(result.location_details.all_destinations) = 1 /\ ~ModificationHit)
              => result.inquiry_type.type = SINGLE_LEG

(***************************************************************************)
(* Properties of the modification signals                                  *)
(***************************************************************************)
\* the three kinds of signal: a reply prefix in the subject, change language
\* in the body, a reference to an existing or original booking in the body
SubjectSignal == AnyFound(SubSeq(modification_patterns, 1, 3), Lower(email_data.subject.s))
ChangeSignal == AnyFound(SubSeq(modification_patterns, 4, 10), Lower(PyStr(email_data.body)))
BookingSignal == AnyFound(SubSeq(modification_patterns, 11, 12), Lower(PyStr(email_data.body)))

\* C15: a reply-prefix subject, change language in the body or a reference to
\* an existing or original booking makes classify_inquiry return modification
\* with confidence 0.98.
C15_SignalIsModification ==
    (Classified /\ (SubjectSignal \/ ChangeSignal \/ BookingSignal))
        => /\ classification_info.type = MODIFICATION
           /\ classification_info.confidence = 980

\* subject 'Re: Trip Query' with body 'Client has made some changes, please
\* resend updated quote' has been classified, as a modification
C15_Witness ==
    /\ Classified
    /\ email_data = ChangesEmail
    /\ SubjectSignal
    /\ ChangeSignal
    /\ classification_info.type = MODIFICATION
    /\ classification_info.confidence = 980

(***************************************************************************)
(* Properties of the totality of classify_inquiry                          *)
(***************************************************************************)
\* step 2 has been taken: classify_inquiry was called with the subject and
\* the body of the email
ClassifyCalled == language_info # Idle /\ pc # "classify"

TotalDisagrees(fields) ==
    /\ fields.num_adults # NoneInt
    /\ fields.num_children # NoneInt
    /\ fields.total_travellers # NoneInt
    /\ fields.total_travellers # fields.num_adults + fields.num_children

\* C17: when the explicit total of the extractor disagrees with adults +
\* children, the record has the larger of the two as total_travelers; and
\* total_travelers >= adults in every record in which the adults were found.
C17_LargerTotal ==
    Structured =>
        /\ TotalDisagrees(extracted_fields)
              => result.traveler_details.total_travelers
                    = Max(extracted_fields.total_travellers,
                          extracted_fields.num_adults + extracted_fields.num_children)
        /\ result.traveler_details.adults # NoneInt
              => /\ result.traveler_details.total_travelers # NoneInt
                 /\ result.traveler_details.total_travelers >= result.traveler_details.adults

(***************************************************************************)
(* Properties of the subject fallback                                      *)
(***************************************************************************)
\* the known destinations that the subject line contains
KnownInSubject ==
    {k \in Range(known_destinations) : k \in Range(Lower(email_data.subject.s))}

\* C18: when field extraction found no destination and the subject contains
\* a known destination, the record has a non-empty all_destinations, with
\* destination_count and primary_destination to match; when extraction found
\* a destination, the location details are as they were structured.
C18_SubjectFallback ==
    Structured =>
        /\ (extracted_fields.destinations = <<>> /\ KnownInSubject # {})
              => /\ result.location_details.all_destinations # <<>>
                 /\ Range(result.location_details.all_destinations)
                       = {Title(<<k>>) : k \in KnownInSubject}
                 /\ result.location_details.destination_count
                       = Len(result.location_details.all_destinations)
                 /\ result.location_details.primary_destination
                       = Str(result.location_details.all_destinations[1])
        /\ extracted_fields.destinations # <<>>
              => result.location_details = structured_data.location_details

\* extraction found nothing, the subject names Goa, and the record has it
C18_Witness ==
    /\ Structured
    /\ extracted_fields.destinations = <<>>
    /\ structured_data.location_details.destination_count = 0
    /\ KnownInSubject = {"goa"}
    /\ result.location_details.all_destinations = << <<"Goa">> >>
    /\ result.location_details.primary_destination = Str(<<"Goa">>)

(***************************************************************************)
(* Properties of the budget normalisation                                  *)
(***************************************************************************)
\* the factor that belongs to a unit
UnitScale(unit) ==
    CASE unit = "lakh" -> 100000
      [] unit = "crore" -> 10000000
      [] unit = "thousand" -> 1000
      [] OTHER -> 1

\* the budget candidates of the text of the call
Budgets == BudgetCandidates(Lower(ner.text.s), AllMatches(patterns_budget, 1, Lower(ner.text.s)), 1)

\* 'per person' is part of what the candidate matched
PerPersonQualified(c) ==
    \E i \in 1..(Len(c.matched_text) - 2) :
        SubSeq(c.matched_text, i, i + 2) = <<"per", SP, "person">>

BudgetCall == NerReturned /\ ner.field_type = "budget" /\ ner.text.ty = "str"

\* C19: the matched number is multiplied by 100,000 exactly when the matched
\* unit is lakh, by 10,000,000 exactly when it is crore, by 1,000 exactly when
\* it is thousand or k, and by nothing when no unit was matched; a candidate
\* with the qualifier 'per person' has confidence 0.95.
C19_UnitScale ==
    BudgetCall =>
        \A i \in 1..Len(Budgets) :
            /\ Budgets[i].amount = Budgets[i].number * UnitScale(PatternUnit(Budgets[i].pattern))
            /\ PerPersonQualified(Budgets[i]) => Budgets[i].confidence = 950

(***************************************************************************)
(* Properties of the order of the destination list                         *)
(***************************************************************************)
\* where a name of the gazetteer first stands in the text
FirstSeen(destination, text_lower) ==
    LET dest_lower == Lower(destination)
    IN Least({i \in 1..(Len(text_lower) + 1) :
                 \/ i = Len(text_lower) + 1
                 \/ /\ i + Len(dest_lower) - 1 <= Len(text_lower)
                    /\ SubSeq(text_lower, i, i + Len(dest_lower) - 1) = dest_lower})

NoDuplicates(ds) == \A i, j \in 1..Len(ds) : i # j => ds[i] # ds[j]

FirstSeenOrder(ds, text_lower) ==
    \A i, j \in 1..Len(ds) : i < j => FirstSeen(ds[i], text_lower) < FirstSeen(ds[j], text_lower)

Extracted == extracted_fields # Idle /\ "destinations" \in DOMAIN extracted_fields

\* C20: the destination list of extract_destinations has no name twice and
\* holds the names in the order in which the text first mentions them, so the
\* order of the list is decided by the text alone.
C20_FirstSeenOrder ==
    Extracted =>
        /\ NoDuplicates(extracted_fields.destinations)
        /\ FirstSeenOrder(extracted_fields.destinations, CombinedText)

(***************************************************************************)
(* Properties of the choice among the candidates                           *)
(***************************************************************************)
\* the candidates of the call: one for every match that yields a value
Hits ==
    LET text == Lower(ner.text.s)
        cands == CASE ner.field_type = "travelers" ->
                          TravelerCandidates(text, AllMatches(patterns_travelers, 1, text))
                   [] ner.field_type = "budget" ->
                          BudgetCandidates(text, AllMatches(patterns_budget, 1, text), 1)
                   [] OTHER ->
                          DurationCandidates(text, AllMatches(patterns_duration, 1, text), 1)
    IN SelectSeq(cands, LAMBDA c : c.confidence >= 0)

CandidateCall ==
    /\ NerReturned
    /\ ner.field_type \in {"travelers", "budget", "duration"}
    /\ ner.text.ty = "str"

\* the first candidate of the highest confidence is the one returned
FirstBest(r, hits) ==
    \E i \in 1..Len(hits) :
        /\ \A j \in 1..Len(hits) : hits[j].confidence <= hits[i].confidence
        /\ \A j \in 1..(i - 1) : hits[j].confidence < hits[i].confidence
        /\ r.value = hits[i].value
        /\ r.confidence = hits[i].confidence

\* C21: for travelers, budget and duration the call returns the candidate of
\* the highest confidence, the first one on ties, with that confidence, and
\* as alternatives the set of the values of all candidates, which holds the
\* returned value.
C21_BestCandidate ==
    CandidateCall =>
        IF Hits = <<>>
        THEN ner.result.value = None /\ ner.result.alternatives = {}
        ELSE /\ FirstBest(ner.result, Hits)
             /\ ner.result.alternatives = {Hits[i].value : i \in 1..Len(Hits)}
             /\ ner.result.value \in ner.result.alternatives

(***************************************************************************)
(* Properties of the batch loop                                            *)
(***************************************************************************)
MainEnded == pc \in {"finished", "critical"}

\* C22: the inquiries of a batch are handled one by one: a report that could
\* not be written or a reply that could not be sent leaves the record of the
\* inquiry as it was computed and does not keep main from processing the
\* inquiries after it.
C22_BatchIndependent ==
    MainEnded =>
        /\ result # Idle
        /\ run.i = Len(run.live_emails)

(***************************************************************************)
(* Properties of the calls of one processor                                *)
(***************************************************************************)
\* the earlier calls of this interpreter process, on any email
EarlierHere == {i \in 1..Len(run.returned) : run.returned[i].process = run.process}

\* process_inquiry has returned after other calls on the same processor
ReturnedAfterOthers == pc = "done" /\ EarlierHere # {}

\* the call in progress does not write to its input record
InputKept == pc \notin {"done", "raised"} => email_data' = email_data

C24_DetectionInRange ==
    pc # "language" =>
        /\ Detected
        /\ "primary_language" \in DOMAIN language_info
        /\ language_info.primary_language \in {ENGLISH, HINDI, HINDI_ENGLISH, HINGLISH}
        /\ \A k \in {ENGLISH, HINDI, HINDI_ENGLISH, HINGLISH} :
              language_info.scores[k] \in 0..1000
        /\ language_info.confidence <= 990

\* a category score of 1.0 is reported with confidence 0.99
C24_Witness ==
    /\ Detected
    /\ language_info.scores[language_info.primary_language] = 1000
    /\ language_info.confidence = 990

\* the text has Devanagari characters and letters of [a-zA-Z]
MixedScript == has_devanagari(DetectedText) /\ has_english_chars(DetectedText)

\* hindi has the highest of the four scores, and it is above 0.7
HindiDominates ==
    LET scores == Scores(DetectedText)
    IN /\ \A k \in {ENGLISH, HINDI_ENGLISH, HINGLISH} : scores[k] <= scores[HINDI]
       /\ scores[HINDI] > 70 * (Scale(DetectedText) \div 100)

\* C25: a text in mixed script is reported as hinglish, unless hindi is the
\* category of the highest score and that score is above 0.7, and then as
\* hindi; it is never reported as english or hindi_english.
C25_MixedScript ==
    (Detected /\ MixedScript) =>
        /\ language_info.primary_language = (IF HindiDominates THEN HINDI ELSE HINGLISH)
        /\ language_info.primary_language \notin {ENGLISH, HINDI_ENGLISH}

\* hindi has the highest score, not above 0.7, and hinglish is reported
C25_Witness ==
    /\ Detected
    /\ MixedScript
    /\ ~HindiDominates
    /\ PrimaryLanguage(Scores(DetectedText)) = HINDI
    /\ language_info.primary_language = HINGLISH

(***************************************************************************)
(* Properties of the completeness score                                    *)
(***************************************************************************)
\* every required group is there and every optional group has a value
AllPopulated(data) ==
    /\ DictTruthy(data.inquiry_type)
    /\ DictTruthy(data.language_info)
    /\ DictTruthy(data.customer_details)
    /\ DictTruthy(data.location_details)
    /\ DictTruthy(data.traveler_details)
    /\ DateMeaningful(data.date_details)
    /\ PreferenceMeaningful(data.preference_details)
    /\ BudgetMeaningful(data.budget_details)

\* C26: the completeness score lies between 0 and 100; the required groups
\* add 60 points when all are there and the optional groups 40 points when
\* all are there, so a record with every group populated scores exactly 100.
C26_FullRecordScores100 ==
    Returned =>
        /\ result.completeness_score \in 0..10000
        /\ (~result.error /\ AllPopulated(result)) => result.completeness_score = 10000

(***************************************************************************)
(* Properties of the legs                                                  *)
(***************************************************************************)
\* where 'for <destination>' or 'in <destination>' stands in the text
Anchors(destination, text_lower) ==
    LET ms == FindIter(<<T({"for", "in"}), S1>> \o Lit(Lower(destination)), text_lower)
    IN {ms[k].s : k \in 1..Len(ms)}

\* the span of a destination: from the anchor the section was found at to the
\* next anchor of another destination of the record, or to the end of the text
OwnSpan(destination, dests, text) ==
    LET text_lower == Lower(text)
        for == Search(dest_patterns(destination)[1], text_lower)
        in == Search(dest_patterns(destination)[2], text_lower)
        start == IF for.ok THEN for.s ELSE in.s
        others == UNION {Anchors(dests[k], text_lower) :
                            k \in {j \in 1..Len(dests) : dests[j] # destination}}
    IN IF ~for.ok /\ ~in.ok THEN <<>>
       ELSE Slice(text, start, Least({a \in others : a > start} \cup {Len(text) + 1}))

\* what the leg holds is what its own span yields
FromOwnSpan(leg, own) ==
    /\ \A f \in {"duration", "hotel", "meals", "transportation"} :
          leg[f] # None => leg[f] = own[f]
    /\ \A k \in 1..Len(leg.activities) : leg.activities[k] \in Range(own.activities)

HasLegs == Structured /\ result.location_details.has_legs

\* C27: the details of a leg are taken from the span of its destination, which
\* runs from its anchor 'for <destination>' or 'in <destination>' to the next
\* anchor or the end of the text: duration, hotel, meals, transportation and
\* activities of a leg hold no value that stands only in the span of another
\* destination.
C27_LegWithinSpan ==
    HasLegs =>
        \A i \in 1..Len(result.location_details.legs) :
            FromOwnSpan(result.location_details.legs[i],
                        DetailsOf(OwnSpan(result.location_details.legs[i].destination,
                                          result.location_details.all_destinations,
                                          email_data.body.s)))

(***************************************************************************)
(* Properties of the location block                                        *)
(***************************************************************************)
\* C28: in the record process_inquiry returns, all_destinations does not hold
\* the city the record reports as departure_city, whether the list comes from
\* the text or from the subject line.
C28_DepartureNotDestination ==
    (Structured /\ result.departure_city # None) =>
        \A i \in 1..Len(result.location_details.all_destinations) :
            result.location_details.all_destinations[i] # result.departure_city.s

\* C29: in every record that is not an error record, destination_count is the
\* length of all_destinations and primary_destination its first element, None
\* when the list is empty; legs are there only for a multi_leg inquiry with at
\* least two destinations, one leg for every destination in the order of the
\* list; modification_details is there exactly for a modification.
C29_LocationBlock ==
    Structured =>
        LET l == result.location_details
        IN /\ l.destination_count = Len(l.all_destinations)
           /\ l.primary_destination =
                 (IF l.all_destinations = <<>> THEN None ELSE Str(l.all_destinations[1]))
           /\ l.has_legs =>
                 /\ result.inquiry_type.type = MULTI_LEG
                 /\ Len(l.all_destinations) >= 2
                 /\ Len(l.legs) = Len(l.all_destinations)
                 /\ \A i \in 1..Len(l.legs) : l.legs[i].destination = l.all_destinations[i]
           /\ result.has_modification_details <=> result.inquiry_type.type = MODIFICATION

\* a multi_leg record with a leg for each of its two destinations
C29_Witness ==
    /\ Structured
    /\ result.location_details.has_legs
    /\ Len(result.location_details.legs) = 2
    /\ result.inquiry_type.type = MULTI_LEG

(***************************************************************************)
(* Properties of the budget block                                          *)
(***************************************************************************)
\* the text says that the budget is meant per traveller
QualifiedPerPerson ==
    \/ Found(<<L("per"), S1, T({"person", "head", "pax", "adult", "traveler", "traveller"})>>,
             CombinedText)
    \/ \E i \in 1..Len(CombinedText) : CombinedText[i] \in {"pp", "each"}

\* C30: is_per_person is true only if the text qualifies the budget as per
\* person: a budget stated without such a qualifier gives budget_provided true
\* and is_per_person false, and is_per_person true implies budget_provided true.
C30_PerPersonOnlyIfQualified ==
    Structured =>
        LET b == result.budget_details
        IN /\ b.is_per_person => b.budget_provided
           /\ b.is_per_person => QualifiedPerPerson
           /\ (NonEmpty(extracted_fields.total_budget) /\ ~QualifiedPerPerson)
                 => (b.budget_provided /\ ~b.is_per_person)
====
